---- MODULE Spec2Model ----
(***************************************************************************)
(* A model of the token simulation engine of TT_PY_TOKENS:                 *)
(*   core/spatial_grid_manager.py   SpatialGrid                            *)
(*   core/respawn_manager.py        RespawnManager                         *)
(*   core/token.py                  Token (forces, collision, update)      *)
(*   core/token_factory.py          TokenFactory                           *)
(*   core/token_runtime.py          update_simulation and its three passes *)
(*   core/simulation.py             TokenSimulation.update                 *)
(*                                                                         *)
(* Numbers.  The program computes in floating point.  The model uses       *)
(* fixed point: lengths and velocities in tenths of a pixel ("du"), times  *)
(* in milliseconds, scale factors in thousandths, ratios as num/den pairs. *)
(* A product followed by a division is truncated toward zero (TruncDiv).   *)
(* Comparisons of a distance with a radius are made on the squares, which  *)
(* is exact.                                                               *)
(*                                                                         *)
(* Objects.  A Token object is an entry of heap, named by an integer id;   *)
(* the slot array, the grid lists and collision_partner hold ids, as the   *)
(* Python containers hold references.  An object stays in heap after its   *)
(* slot is set to None, as a Python object stays alive while the grid or a *)
(* partner field still refers to it.                                       *)
(***************************************************************************)
EXTENDS Integers, Sequences, FiniteSets, TLC

VARIABLES
    tokens,            \* TokenSimulation.tokens: slot index -> id or None
    heap,              \* id -> Token object
    token_positions,   \* TokenFactory.token_positions
    next_id,           \* the id the next Token object gets
    respawn_queue,     \* RespawnManager.respawn_queue: index -> death time
    now,               \* time.time(), ms
    last_mouse_pos,    \* TokenSimulation.last_mouse_pos
    grid,              \* SpatialGrid.grid: cell -> list of ids
    cell_size,         \* SpatialGrid.cell_size; None while _spatial_grid is None
    settings,          \* SettingsManager.runtime_settings (the keys read here)
    pc,                \* where the frame is: idle, tokens, respawn, fades
    idx,               \* the loop index of update_tokens
    frame,             \* the arguments of the running update_simulation call
    ready_indices,     \* the last value returned by RespawnManager.update
    query_result,      \* the last value returned by a SpatialGrid query
    calls,             \* calls the host has made (frames and settings updates)
    origin,            \* slot -> home of the token create_initial_tokens put there
    hist               \* history of the running frame (observations only)

vars == << tokens, heap, token_positions, next_id, respawn_queue, now,
           last_mouse_pos, grid, cell_size, settings, pc, idx, frame,
           ready_indices, query_result, calls, origin, hist >>

(***************************************************************************)
(* Bounds of the model.                                                    *)
(***************************************************************************)
\* calls the host makes: TokenSimulation.update and update_runtime_settings
MaxCalls == 3

\* calls made to a RespawnManager driven on its own
MaxOps == 5

(***************************************************************************)
(* Python's None, for a slot, a partner, a missing grid.                   *)
(***************************************************************************)
None == -1

(***************************************************************************)
(* Arithmetic.                                                             *)
(***************************************************************************)
Abs(x) == IF x < 0 THEN -x ELSE x

Min(a, b) == IF a <= b THEN a ELSE b

Max(a, b) == IF a >= b THEN a ELSE b

\* a / b for b > 0, truncated toward zero
TruncDiv(a, b) == IF a >= 0 THEN a \div b ELSE -((-a) \div b)

\* a // b of Python: the floor, then int()
FloorDiv(a, b) == a \div b

RECURSIVE SqrtBetween(_, _, _)
SqrtBetween(n, lo, hi) ==
    IF lo >= hi THEN lo
    ELSE LET mid == (lo + hi + 1) \div 2
         IN  IF mid * mid <= n THEN SqrtBetween(n, mid, hi)
                               ELSE SqrtBetween(n, lo, mid - 1)

\* the integer part of the square root
ISqrt(n) == SqrtBetween(n, 0, 46340)

VAdd(a, b) == << a[1] + b[1], a[2] + b[2] >>

VSub(a, b) == << a[1] - b[1], a[2] - b[2] >>

\* the squared length of a vector
Len2(v) == v[1] * v[1] + v[2] * v[2]

\* pygame.Vector2.length()
VLength(v) == ISqrt(Len2(v))

(***************************************************************************)
(* Settings.  init_settings are fixed at construction; the runtime         *)
(* settings are the JSON the host passes and may replace at run time.      *)
(* A key the JSON leaves out is None here, and every reader applies the    *)
(* default its own .get() names.                                           *)
(***************************************************************************)
\* SettingsManager.get_init_canvas_size, get_token_size, init_canvas.min_padding,
\* timing.respawn_delay_sec as read once by TokenSimulation.init
init_settings ==
    [ canvas |-> << 400, 160 >>, token |-> << 100, 100 >>, min_padding |-> 20,
      respawn_delay_sec |-> 50 ]

\* the runtime keys the engine reads; lengths in du, times in ms
DefaultSettings ==
    [ mouse_enabled |-> FALSE,            \* mouse_force.enabled
      max_distance |-> 100,               \* mouse_force.max_distance
      force_strength |-> 1,               \* mouse_force.force_strength
      flocking_enabled |-> FALSE,         \* tokens.flocking.enabled
      flocking_radius |-> 150,            \* tokens.flocking.radius
      finds_home_enabled |-> FALSE,       \* tokens.finds_home.enabled
      finds_home_delay |-> 50,            \* tokens.finds_home.delay_sec
      finds_home_strength |-> 100,        \* tokens.finds_home.strength, du per second
      bounce_pop |-> FALSE,               \* "bounce_pop" in tokens.collision_behavior
      collision_type |-> "circle",        \* tokens.collision.type
      bounds_scale |-> 4,                 \* tokens.collision.bounds_scale, halves
      enable_wall_bounce |-> FALSE,       \* tokens.enable_wall_bounce
      instant_in |-> FALSE,               \* "instant_in" in tokens.spawn_behavior
      respawn_collision_delay |-> 0,      \* timing.respawn_collision_delay_sec
      bounce_duration_ms |-> 200,         \* animation.bounce_duration_ms
      bounce_scale |-> 1200,              \* animation.bounce_scale, thousandths
      bounce_threshold |-> 3,             \* animation.bounce_threshold, tenths
      fade_in_duration_ms |-> 80,        \* animation.fade_in_duration_ms
      bounce_factor |-> 8 ]               \* physics.bounce_factor, tenths

\* the configurations the host may load or switch to
SettingsSet ==
    { [DefaultSettings EXCEPT !.mouse_enabled = TRUE, !.bounce_pop = TRUE],
      [DefaultSettings EXCEPT !.mouse_enabled = TRUE, !.enable_wall_bounce = TRUE],
      [DefaultSettings EXCEPT !.instant_in = TRUE],
      [DefaultSettings EXCEPT !.flocking_enabled = TRUE, !.bounds_scale = None,
                              !.max_distance = 50],
      DefaultSettings }

\* the pointer positions the host may report (window coordinates, y up)
MouseSet == { << 125, 80 >>, << 240, 50 >> }

\* the clock readings between two frames, ms
DtSet == { 0, 50, 100 }

(***************************************************************************)
(* Token.                                                                  *)
(***************************************************************************)
\* Token.__init__
NewToken(position, size) ==
    [ position |-> position, home |-> position, velocity |-> << 0, 0 >>,
      original_size |-> size, current_size |-> size, bounce_scale |-> 1000,
      opacity |-> 255, fade_timer |-> 0, rotation |-> 0,
      time_since_force |-> 0, time_since_respawn |-> 0,
      dead |-> FALSE, is_colliding |-> FALSE, collision_time |-> 0,
      collision_partner |-> None ]

(***************************************************************************)
(* TokenFactory.                                                           *)
(***************************************************************************)
\* try_layout inside TokenFactory._calculate_optimal_grid; <<>> stands for
\* (None, None)
try_layout(cw, ch, tw, th, pad, n_cols, n_rows) ==
    LET available_space_x == cw - n_cols * tw
        available_space_y == ch - n_rows * th
        spacing_x == TruncDiv(available_space_x, n_cols + 1)
        spacing_y == TruncDiv(available_space_y, n_rows + 1)
    IN  IF n_cols < 0 \/ n_rows < 0 \/ spacing_x < pad \/ spacing_y < pad
        THEN << >>
        ELSE [ k \in 1..(n_rows * n_cols) |->
                 LET row == (k - 1) \div n_cols
                     col == (k - 1) % n_cols
                 IN  << spacing_x + col * (tw + spacing_x) + tw \div 2,
                        spacing_y + row * (th + spacing_y) + th \div 2 >> ]

\* TokenFactory._calculate_optimal_grid (the positions it returns)
calculate_optimal_grid(cw, ch, tw, th, pad) ==
    LET max_cols == FloorDiv(cw - 2 * pad, tw + pad)
        max_rows == FloorDiv(ch - 2 * pad, th + pad)
        first == try_layout(cw, ch, tw, th, pad, max_cols, max_rows)
    IN  IF first # << >> THEN first
        ELSE try_layout(cw, ch, tw, th, pad, max_cols - 1, max_rows - 1)

\* the layout of the modelled canvas
LayoutPositions ==
    calculate_optimal_grid(init_settings.canvas[1], init_settings.canvas[2],
                           init_settings.token[1], init_settings.token[2],
                           init_settings.min_padding)

\* The loop of TokenFactory.create_initial_tokens: a position whose token
\* cannot be created (no texture, a failed upload) is skipped, the others are
\* appended in order.  skipped is the set of such position indices (0-based).
RECURSIVE created_positions(_, _, _)
created_positions(positions, skipped, i) ==
    IF i > Len(positions) THEN << >>
    ELSE IF (i - 1) \in skipped
         THEN created_positions(positions, skipped, i + 1)
         ELSE << positions[i] >> \o created_positions(positions, skipped, i + 1)

\* TokenFactory.create_token_at_home: the new object, or None when the texture
\* pool is gone or the upload fails
create_token_at_home(home_position, ok) ==
    IF ok THEN NewToken(home_position, init_settings.token) ELSE None

(***************************************************************************)
(* SpatialGrid.  grid is the defaultdict: a function from the cells that   *)
(* hold a list to that list; reading another cell yields the empty list.   *)
(***************************************************************************)
\* int(x / cell_size): a conversion that rounds toward zero
get_cell_coords_trunc(position, cs) ==
    << TruncDiv(position[1], cs), TruncDiv(position[2], cs) >>

\* SpatialGrid._get_cell_coords
get_cell_coords(position, cs) ==
    << FloorDiv(position[1], cs), FloorDiv(position[2], cs) >>

\* SpatialGrid._get_neighbor_cells
get_neighbor_cells(cell) ==
    { << cell[1] + dx, cell[2] + dy >> : dx \in {-1, 0, 1}, dy \in {-1, 0, 1} }

\* self.grid[cell]
GridAt(g, cell) == IF cell \in DOMAIN g THEN g[cell] ELSE << >>

\* the elements of a list
Elems(seq) == { seq[k] : k \in 1..Len(seq) }

\* SpatialGrid.insert
grid_insert(g, h, id, cs) ==
    IF id = None THEN g
    ELSE LET cell == get_cell_coords(h[id].position, cs)
         IN  IF cell \in DOMAIN g
             THEN [g EXCEPT ![cell] = Append(@, id)]
             ELSE g @@ (cell :> << id >>)

RECURSIVE grid_insert_all(_, _, _, _, _)
grid_insert_all(g, h, ids, cs, k) ==
    IF k > Len(ids) THEN g
    ELSE grid_insert_all(grid_insert(g, h, ids[k], cs), h, ids, cs, k + 1)

\* SpatialGrid.clear
grid_clear == << >>

\* an update that does not clear: the lists of the previous frame stay
grid_update_no_clear(h, ids, cs) == grid_insert_all(grid, h, ids, cs, 1)

\* SpatialGrid.update: clear, then insert every token of the list
grid_update(h, ids, cs) == grid_insert_all(grid_clear, h, ids, cs, 1)

\* a window of int(radius // cell_size) rings, without the ring added for the
\* offsets inside the cells
get_nearby_tokens_floor(g, position, radius, cs) ==
    LET center_cell == get_cell_coords(position, cs)
        cells_to_check == Max(1, FloorDiv(radius, cs))
        span == (-cells_to_check)..cells_to_check
    IN  UNION { Elems(GridAt(g, << center_cell[1] + dx, center_cell[2] + dy >>)) :
                dx \in span, dy \in span }

\* SpatialGrid.get_nearby_tokens
get_nearby_tokens(g, position, radius, cs) ==
    LET center_cell == get_cell_coords(position, cs)
        cells_to_check == Max(1, FloorDiv(radius, cs) + 1)
        span == (-cells_to_check)..cells_to_check
    IN  UNION { Elems(GridAt(g, << center_cell[1] + dx, center_cell[2] + dy >>)) :
                dx \in span, dy \in span }

\* SpatialGrid.get_potential_collisions
get_potential_collisions(g, h, id, cs) ==
    IF id = None THEN {}
    ELSE LET cell == get_cell_coords(h[id].position, cs)
             neighbor_cells == get_neighbor_cells(cell)
         IN  UNION { Elems(GridAt(g, c)) : c \in neighbor_cells } \ { id }

(***************************************************************************)
(* RespawnManager.  respawn_queue is the dict {index: death_time}, kept as *)
(* the list of its items in insertion order.                               *)
(***************************************************************************)
QueueKeys(q) == { q[k][1] : k \in 1..Len(q) }

\* respawn_queue[index], for a pending index
DeathTime(q, index) == q[CHOOSE k \in 1..Len(q) : q[k][1] = index][2]

\* RespawnManager.schedule_respawn at clock reading t
schedule_respawn(q, index, t) ==
    IF index \in QueueKeys(q)
    THEN [ k \in 1..Len(q) |-> IF q[k][1] = index THEN << index, t >> ELSE q[k] ]
    ELSE Append(q, << index, t >>)

\* a test that lets the delay pass before the index is due
is_ready_strict(death_time, current_time, delay) == current_time - death_time > delay

\* the test of RespawnManager.update on one item
is_ready(death_time, current_time, delay) == current_time - death_time >= delay

\* RespawnManager.update: the list it returns
update_ready(q, current_time, delay) ==
    LET ReadyItem(item) == is_ready(item[2], current_time, delay)
        picked == SelectSeq(q, ReadyItem)
    IN  [ k \in 1..Len(picked) |-> picked[k][1] ]

\* RespawnManager.update: the queue it leaves
update_queue(q, current_time, delay) ==
    LET Pending(item) == ~is_ready(item[2], current_time, delay)
    IN  SelectSeq(q, Pending)

\* a grid that kept a copy of each position taken when it was built
deref_snapshot(h, other) == [h[other] EXCEPT !.position = hist.start_pos[other]]

\* the Token object a reference held by the grid leads to: SpatialGrid.insert
\* appends the object itself, so a reader sees its fields as they are now
deref(h, other) == h[other]

(***************************************************************************)
(* Token: forces.                                                          *)
(***************************************************************************)
\* Token.apply_mouse_force: is the force applied (enabled and 0 < distance <
\* max_distance)
mouse_force_applies(tok, mouse_pos, cfg) ==
    LET direction == VSub(tok.position, mouse_pos)
    IN  /\ cfg.mouse_enabled
        /\ 0 < Len2(direction)
        /\ Abs(direction[1]) < cfg.max_distance
        /\ Abs(direction[2]) < cfg.max_distance
        /\ Len2(direction) < cfg.max_distance * cfg.max_distance

\* Token.apply_mouse_force with the linear falloff; mouse_speed is
\* mouse_velocity.length().  look_at_mouse is off in every configuration
\* modelled, so rotation stays as it is.
apply_mouse_force(tok, mouse_pos, mouse_speed, cfg) ==
    IF ~mouse_force_applies(tok, mouse_pos, cfg) THEN tok
    ELSE LET direction == VSub(tok.position, mouse_pos)
             distance == VLength(direction)
             weight == cfg.force_strength * (cfg.max_distance - distance)
             applied ==
                 << TruncDiv(direction[1] * weight * mouse_speed,
                             distance * cfg.max_distance),
                    TruncDiv(direction[2] * weight * mouse_speed,
                             distance * cfg.max_distance) >>
         IN  [tok EXCEPT !.velocity = VAdd(@, applied), !.time_since_force = 0]

\* Token.apply_home_force
apply_home_force(tok, cfg, dt) ==
    IF cfg.finds_home_enabled /\ tok.time_since_force > cfg.finds_home_delay
    THEN LET to_home == VSub(tok.home, tok.position)
             length == VLength(to_home)
         IN  IF Len2(to_home) > 0
             THEN LET delta ==
                          << TruncDiv(to_home[1] * cfg.finds_home_strength * dt,
                                      length * 1000),
                             TruncDiv(to_home[2] * cfg.finds_home_strength * dt,
                                      length * 1000) >>
                  IN  [tok EXCEPT !.velocity = VAdd(@, delta)]
             ELSE tok
    ELSE tok

\* the neighbours Token.apply_flocking counts: 0 < dist < radius
flock_mates(h, id, neighbors, cfg) ==
    { o \in neighbors \ { id } :
        LET offset == VSub(deref(h, o).position, h[id].position)
        IN  /\ 0 < Len2(offset)
            /\ Abs(offset[1]) < cfg.flocking_radius
            /\ Abs(offset[2]) < cfg.flocking_radius
            /\ Len2(offset) < cfg.flocking_radius * cfg.flocking_radius }

RECURSIVE VSum(_, _)
\* the sum of F[o] over a finite set
VSum(F, S) ==
    IF S = {} THEN << 0, 0 >>
    ELSE LET o == CHOOSE x \in S : TRUE
         IN  VAdd(F[o], VSum(F, S \ { o }))

\* Token.apply_flocking, with the weights 0.5 of its .get() defaults
apply_flocking(h, id, neighbors, cfg) ==
    LET tok == h[id]
        mates == flock_mates(h, id, neighbors, cfg)
        count == Cardinality(mates)
        radius == cfg.flocking_radius
        com_sum == VSum([o \in mates |-> deref(h, o).position], mates)
        vel_sum == VSum([o \in mates |-> deref(h, o).velocity], mates)
        sep_force ==
            VSum([o \in mates |->
                    LET offset == VSub(deref(h, o).position, tok.position)
                        dist == VLength(offset)
                    IN  << -TruncDiv(offset[1] * 10 * (radius - dist), dist * radius),
                           -TruncDiv(offset[2] * 10 * (radius - dist), dist * radius) >>],
                 mates)
        com == << TruncDiv(com_sum[1], count), TruncDiv(com_sum[2], count) >>
        avg_vel == << TruncDiv(vel_sum[1], count), TruncDiv(vel_sum[2], count) >>
        delta ==
            << TruncDiv(com[1] - tok.position[1] + avg_vel[1] - tok.velocity[1]
                        + sep_force[1], 2),
               TruncDiv(com[2] - tok.position[2] + avg_vel[2] - tok.velocity[2]
                        + sep_force[2], 2) >>
    IN  IF ~cfg.flocking_enabled \/ count = 0 THEN tok
        ELSE [tok EXCEPT !.velocity = VAdd(@, delta)]

(***************************************************************************)
(* Token: collision test.  bounds_scale is in halves, so a scaled radius   *)
(* 0.5 * size * bounds_scale is size * bounds_scale / 4; the comparisons   *)
(* are made on four times the lengths.                                     *)
(***************************************************************************)
\* float(coll_cfg.get("bounds_scale", 1.0)) of Token.check_collision
check_bounds_scale(cfg) == IF cfg.bounds_scale = None THEN 2 ELSE cfg.bounds_scale

\* Token.check_collision, circle branch: does the pair overlap
\* (combined > 0 and dist < combined)
circle_overlaps(a, b, bs) ==
    LET d == VSub(a.position, b.position)
        combined4 == (Min(a.current_size[1], a.current_size[2])
                      + Min(b.current_size[1], b.current_size[2])) * bs
    IN  /\ combined4 > 0
        /\ 4 * Abs(d[1]) < combined4
        /\ 4 * Abs(d[2]) < combined4
        /\ 16 * Len2(d) < combined4 * combined4

\* a trigger that needs the intensity to exceed the threshold
circle_triggers_strict(a, b, bs, threshold) ==
    LET d == VSub(a.position, b.position)
        combined4 == (Min(a.current_size[1], a.current_size[2])
                      + Min(b.current_size[1], b.current_size[2])) * bs
        reach == (10 - threshold) * combined4
    IN  /\ circle_overlaps(a, b, bs)
        /\ IF reach <= 0 THEN FALSE ELSE 1600 * Len2(d) < reach * reach

\* Token.check_collision, circle branch: intensity >= bounce_threshold, where
\* intensity = 1 - dist / combined
circle_triggers(a, b, bs, threshold) ==
    LET d == VSub(a.position, b.position)
        combined4 == (Min(a.current_size[1], a.current_size[2])
                      + Min(b.current_size[1], b.current_size[2])) * bs
        reach == (10 - threshold) * combined4
    IN  /\ circle_overlaps(a, b, bs)
        /\ IF reach < 0 THEN FALSE ELSE 1600 * Len2(d) <= reach * reach

\* Token.check_collision, rect branch: the boxes are not disjoint
rect_overlaps(a, b, bs) ==
    LET left_a == 4 * a.position[1] - a.current_size[1] * bs
        right_a == 4 * a.position[1] + a.current_size[1] * bs
        top_a == 4 * a.position[2] - a.current_size[2] * bs
        bottom_a == 4 * a.position[2] + a.current_size[2] * bs
        left_b == 4 * b.position[1] - b.current_size[1] * bs
        right_b == 4 * b.position[1] + b.current_size[1] * bs
        top_b == 4 * b.position[2] - b.current_size[2] * bs
        bottom_b == 4 * b.position[2] + b.current_size[2] * bs
    IN  ~(right_a < left_b \/ left_a > right_b \/ bottom_a < top_b \/ top_a > bottom_b)

\* Token.check_collision, rect branch: intensity >= bounce_threshold, where
\* intensity = overlap_area / min(area_a, area_b) clipped to [0, 1]
rect_triggers(a, b, bs, threshold) ==
    LET left_a == 4 * a.position[1] - a.current_size[1] * bs
        right_a == 4 * a.position[1] + a.current_size[1] * bs
        top_a == 4 * a.position[2] - a.current_size[2] * bs
        bottom_a == 4 * a.position[2] + a.current_size[2] * bs
        left_b == 4 * b.position[1] - b.current_size[1] * bs
        right_b == 4 * b.position[1] + b.current_size[1] * bs
        top_b == 4 * b.position[2] - b.current_size[2] * bs
        bottom_b == 4 * b.position[2] + b.current_size[2] * bs
        overlap_x == Min(right_a, right_b) - Max(left_a, left_b)
        overlap_y == Min(bottom_a, bottom_b) - Max(top_a, top_b)
        overlap_area == Max(0, overlap_x) * Max(0, overlap_y)
        max_area == Min((2 * a.current_size[1] * bs) * (2 * a.current_size[2] * bs),
                        (2 * b.current_size[1] * bs) * (2 * b.current_size[2] * bs))
    IN  /\ rect_overlaps(a, b, bs)
        /\ IF max_area <= 0 THEN threshold <= 0
           ELSE 10 * Min(overlap_area, max_area) >= threshold * max_area

\* a grace period that also covers the token exactly as old as the delay
collision_tested_past_grace(tok, cfg) ==
    /\ ~(tok.time_since_respawn <= cfg.respawn_collision_delay)
    /\ cfg.bounce_pop

\* Token.check_collision reaches the reading of other's position and size:
\* not inside the respawn grace period, and bounce_pop configured
collision_tested(tok, cfg) ==
    /\ ~(tok.time_since_respawn < cfg.respawn_collision_delay)
    /\ cfg.bounce_pop

\* Token.check_collision: the value it returns
collision_triggers(a, b, cfg) ==
    /\ collision_tested(a, cfg)
    /\ IF cfg.collision_type = "rect"
       THEN rect_triggers(a, b, check_bounds_scale(cfg), cfg.bounce_threshold)
       ELSE circle_triggers(a, b, check_bounds_scale(cfg), cfg.bounce_threshold)

\* a trigger that lets a running animation run on
check_collision_keeps_time(h, id, other, cfg) ==
    IF collision_triggers(h[id], deref(h, other), cfg)
    THEN [h[id] EXCEPT !.is_colliding = TRUE, !.collision_partner = other]
    ELSE h[id]

\* Token.check_collision: self after the call; other is an id
check_collision(h, id, other, cfg) ==
    IF collision_triggers(h[id], deref(h, other), cfg)
    THEN [h[id] EXCEPT !.is_colliding = TRUE, !.collision_partner = other,
                       !.collision_time = 0, !.bounce_scale = 1000]
    ELSE h[id]

\* Token._check_circle_collision(other, with_response): the intensity it
\* returns, in thousandths, and the two positions it leaves
check_circle_collision(a, b, with_response) ==
    LET d == VSub(a.position, b.position)
        distance == VLength(d)
        \* twice the combined radius, so that odd sizes lose nothing
        combined2 == Min(a.current_size[1], a.current_size[2])
                     + Min(b.current_size[1], b.current_size[2])
        overlap2 == combined2 - 2 * distance
        push == IF with_response /\ distance > 0
                THEN << TruncDiv(d[1] * overlap2, 4 * distance),
                        TruncDiv(d[2] * overlap2, 4 * distance) >>
                ELSE << 0, 0 >>
    IN  IF 2 * distance >= combined2
        THEN [ intensity |-> 0, self |-> a.position, other |-> b.position ]
        ELSE [ intensity |-> 1000 - TruncDiv(1000 * 2 * distance, combined2),
               self |-> VAdd(a.position, push),
               other |-> VSub(b.position, push) ]

(***************************************************************************)
(* Token.update.                                                           *)
(***************************************************************************)
\* an envelope that keeps rising through the second half
bounce_envelope_rising(collision_time, bounce_duration, bounce_max) ==
    1000 + TruncDiv((bounce_max - 1000) * 2 * collision_time, bounce_duration)

\* the triangular envelope of Token.update, for collision_time < bounce_duration
bounce_envelope(collision_time, bounce_duration, bounce_max) ==
    IF 2 * collision_time < bounce_duration
    THEN 1000 + TruncDiv((bounce_max - 1000) * 2 * collision_time, bounce_duration)
    ELSE bounce_max - TruncDiv((bounce_max - 1000) * (2 * collision_time - bounce_duration),
                               bounce_duration)

\* an animation that ends without setting bounce_scale back
update_collision_animation_scaled(tok, cfg, dt) ==
    IF ~tok.is_colliding THEN tok
    ELSE LET collision_time == tok.collision_time + dt
         IN  IF collision_time >= cfg.bounce_duration_ms
             THEN [tok EXCEPT !.is_colliding = FALSE, !.collision_partner = None,
                              !.collision_time = 0]
             ELSE [tok EXCEPT !.collision_time = collision_time,
                              !.bounce_scale =
                                  bounce_envelope(collision_time, cfg.bounce_duration_ms,
                                                  cfg.bounce_scale)]

\* an animation that ends only once collision_time is past the duration
update_collision_animation_late(tok, cfg, dt) ==
    IF ~tok.is_colliding THEN tok
    ELSE LET collision_time == tok.collision_time + dt
         IN  IF collision_time > cfg.bounce_duration_ms
             THEN [tok EXCEPT !.is_colliding = FALSE, !.collision_partner = None,
                              !.collision_time = 0, !.bounce_scale = 1000]
             ELSE [tok EXCEPT !.collision_time = collision_time,
                              !.bounce_scale =
                                  bounce_envelope(collision_time, cfg.bounce_duration_ms,
                                                  cfg.bounce_scale)]

\* Token.update, "Handle collision animation"
update_collision_animation(tok, cfg, dt) ==
    IF ~tok.is_colliding THEN tok
    ELSE LET collision_time == tok.collision_time + dt
         IN  IF collision_time >= cfg.bounce_duration_ms
             THEN [tok EXCEPT !.is_colliding = FALSE, !.collision_partner = None,
                              !.collision_time = 0, !.bounce_scale = 1000]
             ELSE [tok EXCEPT !.collision_time = collision_time,
                              !.bounce_scale =
                                  bounce_envelope(collision_time, cfg.bounce_duration_ms,
                                                  cfg.bounce_scale)]

\* self.velocity *= 0.9
damp(v) == << TruncDiv(v[1] * 9, 10), TruncDiv(v[2] * 9, 10) >>

\* an integration that scales the displacement by dt (in ms)
integrate_scaled(tok, dt) ==
    [tok EXCEPT !.position = VAdd(tok.position,
                                  << TruncDiv(tok.velocity[1] * dt, 1000),
                                     TruncDiv(tok.velocity[2] * dt, 1000) >>),
                !.velocity = damp(tok.velocity),
                !.time_since_force = @ + dt]

\* Token.update, "Update position and velocity"
integrate(tok, dt) ==
    [tok EXCEPT !.position = VAdd(tok.position, tok.velocity),
                !.velocity = damp(tok.velocity),
                !.time_since_force = @ + dt]

\* Token.update, the bounding box size; rotation is 0 in every configuration
\* modelled, so the box is original_size scaled by bounce_scale
update_size(tok) ==
    [tok EXCEPT !.current_size =
        IF tok.bounce_scale # 1000
        THEN << TruncDiv(tok.original_size[1] * tok.bounce_scale, 1000),
                TruncDiv(tok.original_size[2] * tok.bounce_scale, 1000) >>
        ELSE tok.original_size]

\* a reflection that loses the sign
reflect_unsigned(v, bounce_factor) == TruncDiv(v * bounce_factor, 10)

\* -velocity * bounce_factor
reflect(v, bounce_factor) == TruncDiv(-v * bounce_factor, 10)

\* Token.update, one axis of the wall bounce: << position, velocity >>
bounce_axis(p, v, size, extent, bounce_factor) ==
    IF 2 * p - size < 0
    THEN << TruncDiv(size, 2), IF v < 0 THEN reflect(v, bounce_factor) ELSE v >>
    ELSE IF 2 * p + size > 2 * extent
         THEN << extent - TruncDiv(size, 2),
                 IF v > 0 THEN reflect(v, bounce_factor) ELSE v >>
         ELSE << p, v >>

\* a test that fires as soon as the box sticks out on one side
off_screen_partly(tok, canvas_size) ==
    \/ 2 * tok.position[1] - tok.current_size[1] < 0
    \/ 2 * tok.position[1] + tok.current_size[1] > 2 * canvas_size[1]
    \/ 2 * tok.position[2] - tok.current_size[2] < 0
    \/ 2 * tok.position[2] + tok.current_size[2] > 2 * canvas_size[2]

\* Token.update, "completely off screen"
off_screen(tok, canvas_size) ==
    \/ 2 * tok.position[1] + tok.current_size[1] < 0
    \/ 2 * tok.position[1] - tok.current_size[1] > 2 * canvas_size[1]
    \/ 2 * tok.position[2] + tok.current_size[2] < 0
    \/ 2 * tok.position[2] - tok.current_size[2] > 2 * canvas_size[2]

\* Token.update, "Handle boundary collisions"
handle_boundary(tok, canvas_size, cfg) ==
    IF cfg.enable_wall_bounce
    THEN LET bx == bounce_axis(tok.position[1], tok.velocity[1], tok.current_size[1],
                               canvas_size[1], cfg.bounce_factor)
             by == bounce_axis(tok.position[2], tok.velocity[2], tok.current_size[2],
                               canvas_size[2], cfg.bounce_factor)
         IN  [tok EXCEPT !.position = << bx[1], by[1] >>,
                         !.velocity = << bx[2], by[2] >>]
    ELSE [tok EXCEPT !.dead = off_screen(tok, canvas_size)]

\* Token.update
token_update(tok, canvas_size, cfg, dt) ==
    handle_boundary(
        update_size(
            integrate(
                update_collision_animation(
                    [tok EXCEPT !.time_since_respawn = @ + dt], cfg, dt),
                dt)),
        canvas_size, cfg)

(***************************************************************************)
(* The slot array.                                                         *)
(***************************************************************************)
\* range(len(tokens))
Slots == DOMAIN tokens

\* the ids of [t for t in tokens if t is not None], in slot order
RECURSIVE live_ids(_, _)
live_ids(toks, i) ==
    IF i \notin DOMAIN toks THEN << >>
    ELSE IF toks[i] = None THEN live_ids(toks, i + 1)
         ELSE << toks[i] >> \o live_ids(toks, i + 1)

\* the history of a frame that has not read or moved anything yet
EmptyHist ==
    [ ids |-> << >>,         \* slot -> the object in it when the frame started
      start_pos |-> << >>,   \* id -> position when the grid was built
      forced |-> << >>,      \* slot -> the Token object when its Token.update is called
      after |-> << >>,       \* slot -> the Token object after its Token.update of this frame
      reads |-> {},          \* positions of other tokens read by force and collision code
      before |-> << >>,      \* slot -> the Token object when the frame started (None: empty)
      respawned |-> {},      \* slots refilled by this frame's respawn_tokens
      drained |-> FALSE,     \* RespawnManager.update ran in this frame
      faded |-> FALSE,       \* update_token_fades ran to its end in this frame
      raised |-> FALSE ]     \* an exception ended the frame

(***************************************************************************)
(* Construction: TokenSimulation.init.                                     *)
(***************************************************************************)
\* the sets of layout positions whose token creation may fail at start-up
SkippedSets == { S \in SUBSET (0..(Len(LayoutPositions) - 1)) : Cardinality(S) <= 1 }

InitWith(skipped, cfg) ==
    LET created == created_positions(LayoutPositions, skipped, 1)
    IN  /\ tokens = [ i \in 0..(Len(created) - 1) |-> i ]
        /\ heap = [ id \in 0..(Len(created) - 1) |->
                      NewToken(created[id + 1], init_settings.token) ]
        /\ next_id = Len(created)
        /\ token_positions = LayoutPositions
        /\ respawn_queue = << >>
        /\ now = 0
        /\ last_mouse_pos = << -10000, -10000 >>
        /\ grid = << >>
        /\ cell_size = None
        /\ settings = cfg
        /\ pc = "idle"
        /\ idx = 0
        /\ frame = [ dt |-> 0, mouse_pos |-> << -10000, -10000 >>, mouse_speed |-> 0 ]
        /\ ready_indices = << >>
        /\ query_result = {}
        /\ calls = 0
        /\ origin = [ i \in 0..(Len(created) - 1) |-> created[i + 1] ]
        /\ hist = EmptyHist

Init == \E skipped \in SkippedSets, cfg \in SettingsSet : InitWith(skipped, cfg)

(***************************************************************************)
(* SettingsManager.update_runtime_settings, between two frames.            *)
(***************************************************************************)
update_runtime_settings ==
    /\ pc = "idle"
    /\ calls < MaxCalls
    /\ \E new \in SettingsSet \ { settings } : settings' = new
    /\ calls' = calls + 1
    /\ UNCHANGED << tokens, heap, token_positions, next_id, respawn_queue, now,
                    last_mouse_pos, grid, cell_size, pc, idx, frame,
                    ready_indices, query_result, origin, hist >>

(***************************************************************************)
(* TokenSimulation.update down to the loop of update_tokens: the clock     *)
(* reading, the pointer, the grid rebuild.                                 *)
(***************************************************************************)
\* collision_settings.get("bounds_scale", 0.5) of update_tokens
grid_bounds_scale(cfg) == IF cfg.bounds_scale = None THEN 1 ELSE cfg.bounds_scale

\* token_size * bounds_scale * 2 of update_tokens
initial_cell_size(cfg) ==
    Max(init_settings.token[1], init_settings.token[2]) * grid_bounds_scale(cfg)

\* a heap without the objects no slot holds (Python frees them, or nothing
\* reads them again)
collect(h, toks) == [ id \in { toks[i] : i \in DOMAIN toks } \ { None } |-> h[id] ]

simulation_update ==
    /\ pc = "idle"
    /\ calls < MaxCalls
    /\ \E dt \in DtSet, m \in MouseSet :
         LET current_mouse_pos == << m[1], init_settings.canvas[2] - m[2] >>
             mouse_velocity == VSub(current_mouse_pos, last_mouse_pos)
             cs == IF cell_size = None THEN initial_cell_size(settings) ELSE cell_size
             h == collect(heap, tokens)
         IN  /\ now' = now + dt
             /\ last_mouse_pos' = current_mouse_pos
             /\ frame' = [ dt |-> dt, mouse_pos |-> current_mouse_pos,
                           mouse_speed |-> VLength(mouse_velocity) ]
             /\ cell_size' = cs
             /\ heap' = h
             /\ grid' = grid_update(h, live_ids(tokens, 0), cs)
             /\ hist' = [EmptyHist EXCEPT
                           !.ids = tokens,
                           !.start_pos = [ id \in DOMAIN h |-> h[id].position ],
                           !.before = [ i \in Slots |->
                                          IF tokens[i] = None THEN None
                                          ELSE h[tokens[i]] ]]
    /\ pc' = "tokens"
    /\ idx' = 0
    /\ calls' = calls + 1
    /\ UNCHANGED << tokens, token_positions, next_id, respawn_queue,
                    settings, ready_indices, query_result, origin >>

(***************************************************************************)
(* One iteration of the loop of update_tokens, for slot idx.               *)
(***************************************************************************)
\* the display size handed to update_simulation: TokenSimulation.init sets
\* it to the initial canvas size
canvas_size == init_settings.canvas

\* the token after the three force calls of the loop body
apply_forces(h, id, cfg, fr) ==
    LET nearby_tokens == get_nearby_tokens(grid, h[id].position, cfg.max_distance,
                                           cell_size)
        flocked == apply_flocking(h, id, nearby_tokens, cfg)
        pushed == apply_mouse_force(flocked, fr.mouse_pos, fr.mouse_speed, cfg)
    IN  apply_home_force(pushed, cfg, fr.dt)

\* the candidates whose check_collision call returns True
triggering(h, id, candidates, cfg) ==
    { other \in candidates : collision_triggers(h[id], deref(h, other), cfg) }

\* the positions of other tokens the loop body reads for token id: the
\* neighbours apply_flocking measures, the candidates check_collision measures
position_reads(h, id, cfg, candidates) ==
    LET nearby_tokens == get_nearby_tokens(grid, h[id].position, cfg.max_distance,
                                           cell_size)
        measured == (IF cfg.flocking_enabled THEN nearby_tokens \ { id } ELSE {})
                    \cup (IF collision_tested(h[id], cfg) THEN candidates ELSE {})
    IN  { [ reader |-> id, other |-> o, position |-> deref(h, o).position ] :
            o \in measured }

update_tokens ==
    /\ pc = "tokens"
    /\ idx \in Slots
    /\ IF tokens[idx] = None
       THEN UNCHANGED << tokens, heap, respawn_queue, hist >>
       ELSE LET id == tokens[idx]
                forced == apply_forces(heap, id, settings, frame)
                h1 == [heap EXCEPT ![id] = forced]
                collision_candidates == get_potential_collisions(grid, h1, id, cell_size)
                hits == triggering(h1, id, collision_candidates, settings)
            IN  \E last \in (IF hits = {} THEN { None } ELSE hits) :
                  LET checked == IF last = None THEN forced
                                 ELSE check_collision(h1, id, last, settings)
                      updated == token_update(checked, canvas_size, settings, frame.dt)
                  IN  /\ heap' = [heap EXCEPT ![id] = updated]
                      /\ hist' = [hist EXCEPT
                                    !.reads = @ \cup position_reads(h1, id, settings,
                                                                    collision_candidates),
                                    !.forced = (idx :> checked) @@ @,
                                    !.after = (idx :> updated) @@ @]
                      /\ IF updated.dead
                         THEN /\ respawn_queue' = schedule_respawn(respawn_queue, idx, now)
                              /\ tokens' = [tokens EXCEPT ![idx] = None]
                         ELSE UNCHANGED << tokens, respawn_queue >>
    /\ IF idx + 1 \in Slots
       THEN idx' = idx + 1 /\ pc' = "tokens"
       ELSE idx' = 0 /\ pc' = "respawn"
    /\ UNCHANGED << token_positions, next_id, now, last_mouse_pos, grid, cell_size,
                    settings, frame, ready_indices, query_result, calls, origin >>

(***************************************************************************)
(* respawn_tokens.                                                         *)
(***************************************************************************)
\* "Determine home position safely"
respawn_home(positions, index) ==
    IF index < Len(positions) THEN positions[index + 1]
    ELSE << init_settings.canvas[1] \div 2, init_settings.canvas[2] \div 2 >>

\* a respawn that leaves the opacity the constructor set
spawned_opaque(home_pos, cfg) ==
    [create_token_at_home(home_pos, TRUE) EXCEPT
        !.fade_timer = 0,
        !.time_since_respawn = 0]

\* the new token after "Set initial opacity based on spawn behavior" and
\* "Reset respawn timer"
spawned(home_pos, cfg) ==
    [create_token_at_home(home_pos, TRUE) EXCEPT
        !.opacity = IF cfg.instant_in THEN 255 ELSE 0,
        !.fade_timer = 0,
        !.time_since_respawn = 0]

RECURSIVE respawn_first(_, _, _, _, _, _)
\* the slot array after the first k iterations of the loop over ready; the
\* j-th new object gets the id first_id + j - 1
respawn_first(toks, ready, k, positions, first_id, j) ==
    IF j > k THEN toks
    ELSE respawn_first([toks EXCEPT ![ready[j]] = first_id + j - 1],
                       ready, k, positions, first_id, j + 1)

respawn_tokens ==
    /\ pc = "respawn"
    /\ LET ready == update_ready(respawn_queue, now, init_settings.respawn_delay_sec)
       IN  /\ ready_indices' = ready
           /\ respawn_queue' = update_queue(respawn_queue, now,
                                            init_settings.respawn_delay_sec)
           \* the factory creates k tokens; when k < len(ready) the next call of
           \* create_token_at_home returns None and new_token.opacity raises
           /\ \E k \in 0..Len(ready) :
                /\ tokens' = respawn_first(tokens, ready, k, token_positions, next_id, 1)
                /\ heap' = [ id \in DOMAIN heap \cup (next_id..(next_id + k - 1)) |->
                               IF id \in DOMAIN heap THEN heap[id]
                               ELSE spawned(respawn_home(token_positions,
                                                         ready[id - next_id + 1]),
                                            settings) ]
                /\ next_id' = next_id + k
                /\ hist' = [hist EXCEPT
                              !.respawned = { ready[j] : j \in 1..k },
                              !.drained = TRUE,
                              !.raised = (k < Len(ready))]
                /\ pc' = IF k < Len(ready) THEN "idle" ELSE "fades"
    /\ UNCHANGED << token_positions, now, last_mouse_pos, grid, cell_size, settings,
                    idx, frame, query_result, calls, origin >>

(***************************************************************************)
(* update_token_fades.                                                     *)
(***************************************************************************)
\* a progress that is not capped at 1.0
fade_opacity_uncapped(fade_timer, fade_duration) ==
    TruncDiv(255 * fade_timer, fade_duration)

\* int(255 * min(1.0, fade_timer / fade_duration_sec))
fade_opacity(fade_timer, fade_duration) ==
    IF fade_timer >= fade_duration THEN 255
    ELSE TruncDiv(255 * fade_timer, fade_duration)

\* the body of the loop of update_token_fades on one token
fade(tok, cfg, dt) ==
    IF tok.opacity < 255
    THEN [tok EXCEPT !.fade_timer = @ + dt,
                     !.opacity = fade_opacity(tok.fade_timer + dt,
                                              cfg.fade_in_duration_ms)]
    ELSE tok

update_token_fades ==
    /\ pc = "fades"
    /\ IF settings.instant_in
       THEN UNCHANGED << heap, hist >>
       ELSE /\ heap' = [ id \in DOMAIN heap |->
                           IF \E i \in Slots : tokens[i] = id
                           THEN fade(heap[id], settings, frame.dt)
                           ELSE heap[id] ]
            /\ hist' = [hist EXCEPT !.faded = TRUE]
    /\ pc' = "idle"
    /\ UNCHANGED << tokens, token_positions, next_id, respawn_queue, now,
                    last_mouse_pos, grid, cell_size, settings, idx, frame,
                    ready_indices, query_result, calls, origin >>

Next ==
    \/ simulation_update
    \/ update_tokens
    \/ respawn_tokens
    \/ update_token_fades
    \/ update_runtime_settings

Spec == Init /\ [][Next]_vars

(***************************************************************************)
(* Properties of the frame loop.                                           *)
(***************************************************************************)
\* a frame is under way: the settings and the frame inputs are those its
\* history was recorded under
InFrame == pc \in { "tokens", "respawn", "fades" }

\* C1: the slot array keeps its length, the token in slot i always has the
\* home of the token first created in slot i, and a token respawned into
\* slot i starts at that home
C1_SlotHomeStable ==
    /\ DOMAIN tokens = DOMAIN origin
    /\ \A i \in Slots : tokens[i] # None => heap[tokens[i]].home = origin[i]
    /\ \A i \in hist.respawned :
         pc = "fades" => heap[tokens[i]].position = origin[i]

\* C3: when a step has ended, no slot whose respawn was due at the drain of
\* that step is None
C3_NoDueSlotLeftAbsent ==
    (pc = "idle" /\ hist.drained) =>
        \A i \in Elems(ready_indices) : tokens[i] # None

\* C5: when the work on one token raised during a step, the step still
\* respawned every other due slot and advanced the fades
C5_FailureIsolated ==
    (pc = "idle" /\ hist.raised) =>
        /\ Cardinality(Elems(ready_indices) \ hist.respawned) <= 1
        /\ hist.faded

\* C6: the opacity of every token in the slot array is an integer in [0, 255]
C6_OpacityInRange ==
    \A i \in Slots : tokens[i] # None => heap[tokens[i]].opacity \in 0..255

\* C6, its case: a token respawned in this frame is part-way through its fade
C6_RespawnedFading ==
    /\ hist.faded
    /\ \E i \in hist.respawned :
         tokens[i] # None /\ heap[tokens[i]].opacity \in 1..254

\* the slot that held object id when the frame started
SlotOf(id) == CHOOSE i \in DOMAIN hist.ids : hist.ids[i] = id

\* C4 as claimed: every position of another token read by the flocking or
\* collision code of a step is that token's position at the start of the step
C4_ReadsAreStartOfStep ==
    \A r \in hist.reads : r.position = hist.start_pos[r.other]

\* C4 as amended: the position read of another token B is B's position after
\* its own integration when B's slot precedes the reader's (B was processed
\* earlier in the step), and B's position at the start of the step otherwise
C4_ReadsAreCurrent ==
    \A r \in hist.reads :
        r.position = IF SlotOf(r.other) < SlotOf(r.reader)
                     THEN hist.after[SlotOf(r.other)].position
                     ELSE hist.start_pos[r.other]

\* C4, its case: a token read the position of a token that had already moved
\* in the same step
C4_ReadOfMovedToken ==
    \E r \in hist.reads :
        /\ SlotOf(r.other) < SlotOf(r.reader)
        /\ hist.after[SlotOf(r.other)].position # hist.start_pos[r.other]

\* pointer force, flocking, home-seeking and collisions are disabled
ForcesDisabled ==
    /\ ~settings.mouse_enabled
    /\ ~settings.flocking_enabled
    /\ ~settings.finds_home_enabled
    /\ ~settings.bounce_pop

\* b is a times 0.9, up to the rounding of the fixed-point division
IsDamped(a, b) == Abs(10 * b[1] - 9 * a[1]) < 10 /\ Abs(10 * b[2] - 9 * a[2]) < 10

\* C7 as claimed: a step with dt = 0 and the forces disabled leaves every
\* position unchanged and multiplies every velocity by 0.9
C7_ZeroDtKeepsPosition ==
    (InFrame /\ frame.dt = 0 /\ ForcesDisabled) =>
        \A i \in DOMAIN hist.after :
            /\ hist.after[i].position = hist.before[i].position
            /\ IsDamped(hist.before[i].velocity, hist.after[i].velocity)

\* C7 as amended: a step with dt = 0 and the forces and the wall bounce
\* disabled moves every token by its velocity and multiplies the velocity by
\* 0.9
C7_ZeroDtMovesByVelocity ==
    (InFrame /\ frame.dt = 0 /\ ForcesDisabled /\ ~settings.enable_wall_bounce) =>
        \A i \in DOMAIN hist.after :
            /\ hist.after[i].position =
                   VAdd(hist.before[i].position, hist.before[i].velocity)
            /\ IsDamped(hist.before[i].velocity, hist.after[i].velocity)

\* C7, its case: such a step has updated a token that was moving
C7_ZeroDtOnMovingToken ==
    /\ InFrame /\ frame.dt = 0 /\ ForcesDisabled /\ ~settings.enable_wall_bounce
    /\ \E i \in DOMAIN hist.after : hist.before[i].velocity # << 0, 0 >>

\* Token.update moved the box of slot i past the low edge of axis k (1: left,
\* 2: top) while the velocity it integrated pointed out through that edge
CrossedLow(i, k) ==
    /\ 2 * (hist.forced[i].position[k] + hist.forced[i].velocity[k])
           - hist.after[i].current_size[k] < 0
    /\ hist.forced[i].velocity[k] < 0

\* the same for the high edge (1: right, 2: bottom)
CrossedHigh(i, k) ==
    /\ 2 * (hist.forced[i].position[k] + hist.forced[i].velocity[k])
           + hist.after[i].current_size[k] > 2 * canvas_size[k]
    /\ hist.forced[i].velocity[k] > 0

\* the box of slot i touches the low / the high edge of axis k
TouchesLow(i, k) ==
    Abs(2 * hist.after[i].position[k] - hist.after[i].current_size[k]) <= 1

TouchesHigh(i, k) ==
    Abs(2 * (canvas_size[k] - hist.after[i].position[k])
        - hist.after[i].current_size[k]) <= 1

\* this step's forces added nothing to the velocity of slot i, so the velocity
\* Token.update integrated is the velocity at the start of the step
Unforced(i) == hist.forced[i].velocity = hist.before[i].velocity

\* C8 as claimed: with wall bounce enabled, a token whose box a step moves
\* past an edge with the velocity pointing out is clamped to the edge, and
\* that velocity component becomes -(its value at the start of the step) *
\* bounce_factor
C8_ReflectsStartVelocity ==
    (InFrame /\ settings.enable_wall_bounce) =>
        \A i \in DOMAIN hist.after : \A k \in { 1, 2 } :
            (Unforced(i) /\ (CrossedLow(i, k) \/ CrossedHigh(i, k))) =>
                /\ CrossedLow(i, k) => TouchesLow(i, k)
                /\ CrossedHigh(i, k) => TouchesHigh(i, k)
                /\ Abs(10 * hist.after[i].velocity[k]
                       + settings.bounce_factor * hist.before[i].velocity[k]) < 10

\* C8 as amended: the clamp is as claimed, and the velocity component becomes
\* -(0.9 * the value Token.update integrated) * bounce_factor, the 0.9
\* damping being applied before the reflection
C8_ReflectsDampedVelocity ==
    (InFrame /\ settings.enable_wall_bounce) =>
        \A i \in DOMAIN hist.after : \A k \in { 1, 2 } :
            (CrossedLow(i, k) \/ CrossedHigh(i, k)) =>
                /\ CrossedLow(i, k) => TouchesLow(i, k)
                /\ CrossedHigh(i, k) => TouchesHigh(i, k)
                /\ Abs(100 * hist.after[i].velocity[k]
                       + 9 * settings.bounce_factor * hist.forced[i].velocity[k]) < 200

\* C8, its case: a token that entered the step moving, and was pushed by no
\* force in it, crossed an edge and was reflected
C8_UnforcedTokenCrossedEdge ==
    /\ InFrame /\ settings.enable_wall_bounce
    /\ \E i \in DOMAIN hist.after : \E k \in { 1, 2 } :
         Unforced(i) /\ (CrossedLow(i, k) \/ CrossedHigh(i, k))

\* C9: while a token is colliding, its bounce_scale is on the triangular
\* envelope of its progress p = collision_time / bounce_duration < 1: the
\* rising line 1 + (bounce_max - 1) * 2p for p < 0.5, the falling line
\* bounce_max - (bounce_max - 1) * 2(p - 0.5) for p >= 0.5; so it is
\* bounce_max at p = 0.5 and lies in [1, bounce_max]
C9_BounceEnvelope ==
    \A i \in Slots : (tokens[i] # None /\ heap[tokens[i]].is_colliding) =>
        LET tok == heap[tokens[i]]
            ct == tok.collision_time
            dur == settings.bounce_duration_ms
            bounce_max == settings.bounce_scale
            line == IF 2 * ct < dur
                    THEN 1000 * dur + (bounce_max - 1000) * 2 * ct
                    ELSE bounce_max * dur - (bounce_max - 1000) * (2 * ct - dur)
        IN  /\ ct < dur
            /\ Abs(tok.bounce_scale * dur - line) < dur
            /\ 2 * ct = dur => tok.bounce_scale = bounce_max
            /\ tok.bounce_scale >= 1000 /\ tok.bounce_scale <= bounce_max

\* C9, its case: a colliding token in the falling half of the envelope
C9_FallingHalf ==
    \E i \in Slots :
        /\ tokens[i] # None
        /\ heap[tokens[i]].is_colliding
        /\ 2 * heap[tokens[i]].collision_time > settings.bounce_duration_ms
        /\ heap[tokens[i]].bounce_scale > 1000

(***************************************************************************)
(* A RespawnManager driven on its own: schedule_respawn and update called  *)
(* in any order while the clock advances.                                  *)
(***************************************************************************)
\* the indices scheduled
RMIndices == { 0, 1 }

\* the steps of time.time() between two calls
TickSet == { 25, 50 }

InitRM ==
    /\ respawn_queue = << >>
    /\ now = 0
    /\ ready_indices = << >>
    /\ calls = 0
    /\ hist = [ op |-> "init",          \* the last call
                before |-> << >>,       \* the queue when the last update was called
                entries |-> [ i \in RMIndices |-> 0 ],    \* entries created for i
                returned |-> [ i \in RMIndices |-> 0 ] ]  \* times update returned i
    /\ tokens = << >>
    /\ heap = << >>
    /\ token_positions = << >>
    /\ next_id = 0
    /\ last_mouse_pos = << -10000, -10000 >>
    /\ grid = << >>
    /\ cell_size = None
    /\ settings = DefaultSettings
    /\ pc = "idle"
    /\ idx = 0
    /\ frame = [ dt |-> 0, mouse_pos |-> << 0, 0 >>, mouse_speed |-> 0 ]
    /\ query_result = {}
    /\ origin = << >>

RM_unchanged ==
    UNCHANGED << tokens, heap, token_positions, next_id, last_mouse_pos, grid,
                 cell_size, settings, pc, idx, frame, query_result, origin >>

\* the clock advances
RM_tick ==
    /\ calls < MaxOps
    /\ \E d \in TickSet : now' = now + d
    /\ hist' = [hist EXCEPT !.op = "tick"]
    /\ calls' = calls + 1
    /\ UNCHANGED << respawn_queue, ready_indices >>
    /\ RM_unchanged

\* RespawnManager.schedule_respawn(index)
RM_schedule_respawn ==
    /\ calls < MaxOps
    /\ \E index \in RMIndices :
         /\ respawn_queue' = schedule_respawn(respawn_queue, index, now)
         /\ hist' = [hist EXCEPT
                       !.op = "schedule_respawn",
                       !.entries[index] =
                           IF index \in QueueKeys(respawn_queue) THEN @ ELSE @ + 1]
    /\ calls' = calls + 1
    /\ UNCHANGED << now, ready_indices >>
    /\ RM_unchanged

\* RespawnManager.update()
RM_update ==
    /\ calls < MaxOps
    /\ LET ready == update_ready(respawn_queue, now, init_settings.respawn_delay_sec)
       IN  /\ ready_indices' = ready
           /\ respawn_queue' = update_queue(respawn_queue, now,
                                            init_settings.respawn_delay_sec)
           /\ hist' = [hist EXCEPT
                         !.op = "update",
                         !.before = respawn_queue,
                         !.returned = [ i \in RMIndices |->
                             @[i] + Cardinality({ k \in 1..Len(ready) : ready[k] = i }) ]]
    /\ calls' = calls + 1
    /\ UNCHANGED now
    /\ RM_unchanged

NextRM ==
    \/ RM_tick
    \/ RM_schedule_respawn
    \/ RM_update

SpecRM == InitRM /\ [][NextRM]_vars

\* C2: an update at a time t with t - T < D, T the time index i was scheduled
\* at, does not return i and leaves it pending with that T; an update with
\* t - T >= D returns i and removes it; i is returned once per entry made
C2_RespawnTiming ==
    /\ hist.op = "update" =>
         \A k \in 1..Len(hist.before) :
            LET i == hist.before[k][1]
                T == hist.before[k][2]
            IN  IF now - T < init_settings.respawn_delay_sec
                THEN /\ i \notin Elems(ready_indices)
                     /\ i \in QueueKeys(respawn_queue)
                     /\ DeathTime(respawn_queue, i) = T
                ELSE /\ i \in Elems(ready_indices)
                     /\ i \notin QueueKeys(respawn_queue)
    /\ \A i \in RMIndices :
         hist.returned[i] + (IF i \in QueueKeys(respawn_queue) THEN 1 ELSE 0)
             = hist.entries[i]

\* C2, its case: an update exactly D after the scheduling returned the index,
\* and left another index, scheduled later, pending
C2_ReturnedWhenDue ==
    /\ hist.op = "update"
    /\ \E k \in 1..Len(hist.before) :
         /\ now - hist.before[k][2] = init_settings.respawn_delay_sec
         /\ hist.before[k][1] \in Elems(ready_indices)
    /\ respawn_queue # << >>

(***************************************************************************)
(* A SpatialGrid driven on its own: tokens move, the grid is rebuilt and   *)
(* queried in any order.                                                   *)
(***************************************************************************)
\* the positions a token takes; with cell size 400 their cells are
\* (-1,0), (0,0), (1,0), (2,0) and (25,25)
GridPositions ==
    { << -10, 10 >>, << 100, 100 >>, << 600, 100 >>, << 1100, 100 >>,
      << 10000, 10000 >> }

\* the cell sizes a SpatialGrid is constructed with: 2 * token size *
\* bounds_scale for bounds_scale 1.0 and 2.0
GridCellSizes == { 200, 400 }

\* the radii handed to get_nearby_tokens
GridRadii == { 100, 650 }

\* no query has been made since the last change
NoQuery == [ kind |-> "none" ]

InitGrid ==
    /\ heap = (0 :> NewToken(<< -10, 10 >>, init_settings.token))
                @@ (1 :> NewToken(<< 100, 100 >>, init_settings.token))
                @@ (2 :> NewToken(<< 1100, 100 >>, init_settings.token))
    /\ tokens = [ i \in 0..2 |-> i ]
    /\ grid = << >>
    /\ cell_size \in GridCellSizes
    /\ query_result = NoQuery
    /\ hist = [ fresh |-> FALSE,     \* no token moved since the grid was built
                built |-> << >> ]    \* id -> position when the grid was built
    /\ token_positions = << >>
    /\ next_id = 3
    /\ respawn_queue = << >>
    /\ now = 0
    /\ last_mouse_pos = << -10000, -10000 >>
    /\ settings = DefaultSettings
    /\ pc = "idle"
    /\ idx = 0
    /\ frame = [ dt |-> 0, mouse_pos |-> << 0, 0 >>, mouse_speed |-> 0 ]
    /\ ready_indices = << >>
    /\ calls = 0
    /\ origin = << >>

Grid_unchanged ==
    UNCHANGED << tokens, token_positions, next_id, respawn_queue, now,
                 last_mouse_pos, cell_size, settings, pc, idx, frame,
                 ready_indices, calls, origin >>

\* a token's position changes (Token.update) while the grid is left as it is
Grid_move ==
    /\ \E id \in DOMAIN heap, p \in GridPositions :
         /\ p # heap[id].position
         /\ heap' = [heap EXCEPT ![id].position = p]
    /\ hist' = [hist EXCEPT !.fresh = FALSE]
    /\ query_result' = NoQuery
    /\ UNCHANGED grid
    /\ Grid_unchanged

\* SpatialGrid.update(tokens)
Grid_update ==
    /\ grid' = grid_update(heap, live_ids(tokens, 0), cell_size)
    /\ hist' = [ fresh |-> TRUE,
                 built |-> [ id \in DOMAIN heap |-> heap[id].position ] ]
    /\ query_result' = NoQuery
    /\ UNCHANGED heap
    /\ Grid_unchanged

\* SpatialGrid.get_potential_collisions(token)
Grid_get_potential_collisions ==
    /\ \E id \in DOMAIN heap :
         query_result' = [ kind |-> "potential_collisions", id |-> id,
                           result |-> get_potential_collisions(grid, heap, id,
                                                               cell_size) ]
    /\ UNCHANGED << heap, grid, hist >>
    /\ Grid_unchanged

\* SpatialGrid.get_nearby_tokens(position, radius), at a token's position
Grid_get_nearby_tokens ==
    /\ \E id \in DOMAIN heap, radius \in GridRadii :
         query_result' = [ kind |-> "nearby_tokens", id |-> id, radius |-> radius,
                           position |-> heap[id].position,
                           result |-> get_nearby_tokens(grid, heap[id].position,
                                                        radius, cell_size) ]
    /\ UNCHANGED << heap, grid, hist >>
    /\ Grid_unchanged

NextGrid ==
    \/ Grid_move
    \/ Grid_update
    \/ Grid_get_potential_collisions
    \/ Grid_get_nearby_tokens

SpecGrid == InitGrid /\ [][NextGrid]_vars

\* the number of cells between two positions along axis k, the cell of x
\* being the c with c * cell_size <= x < (c + 1) * cell_size
CellsApart(p, q, k) == Abs((p[k] \div cell_size) - (q[k] \div cell_size))

\* C10: after a rebuild, get_potential_collisions(e) is exactly the set of
\* the other tokens at most one cell away from e on both axes; so the relation
\* is symmetric and a token two or more cells away on an axis is never in it
C10_PotentialCollisions3x3 ==
    hist.fresh =>
        /\ query_result.kind = "potential_collisions" =>
             query_result.result =
                 { o \in DOMAIN heap \ { query_result.id } :
                     /\ CellsApart(heap[o].position, heap[query_result.id].position, 1) <= 1
                     /\ CellsApart(heap[o].position, heap[query_result.id].position, 2) <= 1 }
        /\ \A a \in DOMAIN heap, b \in DOMAIN heap :
             (a \in get_potential_collisions(grid, heap, b, cell_size))
                 <=> (b \in get_potential_collisions(grid, heap, a, cell_size))

\* C10, its case: a query after a rebuild returned a token of an adjacent
\* cell and left out a token exactly two cells away
C10_AdjacentInTwoAwayOut ==
    /\ hist.fresh
    /\ query_result.kind = "potential_collisions"
    /\ \E o \in query_result.result :
         CellsApart(heap[o].position, heap[query_result.id].position, 1) = 1
    /\ \E o \in DOMAIN heap \ query_result.result :
         CellsApart(heap[o].position, heap[query_result.id].position, 1) = 2

\* the Euclidean distance between p and q is at most radius
WithinRadius(p, q, radius) ==
    /\ Abs(p[1] - q[1]) <= radius
    /\ Abs(p[2] - q[2]) <= radius
    /\ Len2(VSub(p, q)) <= radius * radius

\* C11: get_nearby_tokens(point, radius) contains every token of the grid
\* whose position at the rebuild is within distance radius of the point
C11_NearbyIsSuperset ==
    query_result.kind = "nearby_tokens" =>
        \A o \in DOMAIN hist.built :
            WithinRadius(hist.built[o], query_result.position, query_result.radius)
                => o \in query_result.result

\* C11, its case: the query returned a token within the radius whose cell is
\* int(radius // cell_size) + 1 cells from the point's cell, and left out a
\* token of the grid
C11_MatchInOuterRing ==
    /\ query_result.kind = "nearby_tokens"
    /\ \E o \in query_result.result :
         /\ WithinRadius(hist.built[o], query_result.position, query_result.radius)
         /\ CellsApart(hist.built[o], query_result.position, 1)
                = (query_result.radius \div cell_size) + 1
    /\ DOMAIN hist.built \ query_result.result # {}

\* the grid of the frame has just been rebuilt and no token processed yet
JustRebuilt == pc = "tokens" /\ idx = 0

\* the entries of the grid: << cell, place in the cell's list >>
GridEntries == UNION { { << c, k >> : k \in 1..Len(grid[c]) } : c \in DOMAIN grid }

\* C12: right after the rebuild of a step, every token of the slot array is
\* in exactly one cell, the cell floor(position / cell_size), and every entry
\* of the grid is a token of the slot array
C12_GridMatchesSlots ==
    JustRebuilt =>
        /\ \A i \in Slots : tokens[i] # None =>
             LET p == heap[tokens[i]].position
                 held == { e \in GridEntries : grid[e[1]][e[2]] = tokens[i] }
             IN  /\ Cardinality(held) = 1
                 /\ \A e \in held :
                      /\ e[1][1] * cell_size <= p[1] /\ p[1] < (e[1][1] + 1) * cell_size
                      /\ e[1][2] * cell_size <= p[2] /\ p[2] < (e[1][2] + 1) * cell_size
        /\ \A e \in GridEntries : \E i \in Slots : tokens[i] = grid[e[1]][e[2]]

\* C12, its case: the rebuild follows a frame in which a token died and
\* another moved
C12_RebuiltAfterDeath ==
    /\ JustRebuilt
    /\ \E i \in Slots : tokens[i] = None
    /\ \E i \in Slots : tokens[i] # None /\ heap[tokens[i]].position # origin[i]

\* C13: a token respawn_tokens has just placed in a slot is fresh: not
\* colliding, no partner, bounce_scale 1.0, not dead, at its home, at rest,
\* time_since_respawn 0; its opacity is 255 under instant_in, else its
\* opacity and its fade_timer are 0
C13_RespawnedIsFresh ==
    (pc = "fades" \/ (pc = "idle" /\ hist.raised)) =>
        \A i \in hist.respawned :
            LET tok == heap[tokens[i]]
            IN  /\ ~tok.is_colliding /\ tok.collision_partner = None
                /\ tok.collision_time = 0 /\ tok.bounce_scale = 1000
                /\ ~tok.dead
                /\ tok.position = tok.home /\ tok.velocity = << 0, 0 >>
                /\ tok.time_since_respawn = 0
                /\ tokens[i] \notin DOMAIN hist.start_pos
                /\ pc = "fades" =>
                     IF settings.instant_in THEN tok.opacity = 255
                     ELSE tok.opacity = 0 /\ tok.fade_timer = 0

\* C13, its case: a slot has just been refilled under instant_in
C13_RespawnedInstant ==
    /\ pc = "fades"
    /\ hist.respawned # {}
    /\ settings.instant_in

(***************************************************************************)
(* The collision tests applied to a pair of tokens: Token.check_collision  *)
(* and Token._check_circle_collision, for pairs at equal, overlapping and  *)
(* distant positions under every collision configuration.                  *)
(***************************************************************************)
\* where the second token of the pair is, the first being at << 200, 80 >>
PairPositions ==
    { << 200, 80 >>, << 260, 80 >>, << 230, 120 >>, << 325, 80 >>, << 500, 80 >> }

\* time_since_respawn of a token of the pair, in ms
PairAges == { 0, 50, 100 }

\* the collision configurations
PairSettings ==
    { [DefaultSettings EXCEPT !.bounce_pop = bp, !.collision_type = ct,
                              !.bounds_scale = bs, !.bounce_threshold = th,
                              !.respawn_collision_delay = delay] :
        bp \in BOOLEAN, ct \in { "circle", "rect" }, bs \in { None, 2, 4 },
        th \in { 3, 10 }, delay \in { 0, 50 } }

\* a token a quarter of the way through its bounce against token partner:
\* the fields Token.check_collision and Token.update leave after 50 ms of a
\* 200 ms bounce to 1.2
MidBounce(tok, partner) ==
    [tok EXCEPT !.is_colliding = TRUE, !.collision_partner = partner,
                !.collision_time = 50, !.bounce_scale = 1100,
                !.current_size = << TruncDiv(tok.original_size[1] * 1100, 1000),
                                    TruncDiv(tok.original_size[2] * 1100, 1000) >>]

InitPair ==
    /\ \E p \in PairPositions, age0 \in PairAges, age1 \in PairAges,
          bouncing \in BOOLEAN :
         LET fresh == [NewToken(<< 200, 80 >>, init_settings.token)
                          EXCEPT !.time_since_respawn = age0]
         IN  heap = (0 :> IF bouncing /\ age0 >= 50 THEN MidBounce(fresh, 1)
                          ELSE fresh)
                    @@ (1 :> [NewToken(p, init_settings.token)
                                 EXCEPT !.time_since_respawn = age1])
    /\ settings \in PairSettings
    /\ tokens = [ i \in 0..1 |-> i ]
    /\ hist = [ op |-> "init", before |-> << >> ]
    /\ token_positions = << >>
    /\ next_id = 2
    /\ respawn_queue = << >>
    /\ now = 0
    /\ last_mouse_pos = << -10000, -10000 >>
    /\ grid = << >>
    /\ cell_size = None
    /\ pc = "idle"
    /\ idx = 0
    /\ frame = [ dt |-> 0, mouse_pos |-> << 0, 0 >>, mouse_speed |-> 0 ]
    /\ ready_indices = << >>
    /\ query_result = {}
    /\ calls = 0
    /\ origin = << >>

Pair_unchanged ==
    UNCHANGED << tokens, token_positions, next_id, respawn_queue, now,
                 last_mouse_pos, grid, cell_size, settings, pc, idx, frame,
                 ready_indices, query_result, calls, origin >>

\* token.check_collision(other, settings)
Pair_check_collision ==
    /\ \E id \in DOMAIN heap :
         LET other == CHOOSE o \in DOMAIN heap : o # id
         IN  /\ heap' = [heap EXCEPT ![id] = check_collision(heap, id, other, settings)]
             /\ hist' = [ op |-> "check_collision", before |-> heap,
                          self |-> id, other |-> other,
                          returned |-> collision_triggers(heap[id], heap[other],
                                                          settings) ]
    /\ Pair_unchanged

\* token._check_circle_collision(other, with_response)
Pair_check_circle_collision ==
    /\ \E id \in DOMAIN heap, with_response \in BOOLEAN :
         LET other == CHOOSE o \in DOMAIN heap : o # id
             out == check_circle_collision(heap[id], heap[other], with_response)
         IN  /\ heap' = [heap EXCEPT ![id].position = out.self,
                                     ![other].position = out.other]
             /\ hist' = [ op |-> "_check_circle_collision", before |-> heap,
                          self |-> id, other |-> other,
                          returned |-> out.intensity ]
    /\ Pair_unchanged

NextPair ==
    \/ Pair_check_collision
    \/ Pair_check_circle_collision

SpecPair == InitPair /\ [][NextPair]_vars

\* the last test was made on two tokens at the same position, with a positive
\* combined radius
TestedAtDistanceZero ==
    /\ hist.op \in { "check_collision", "_check_circle_collision" }
    /\ hist.before[hist.self].position = hist.before[hist.other].position
    /\ Min(hist.before[hist.self].current_size[1], hist.before[hist.self].current_size[2])
       + Min(hist.before[hist.other].current_size[1],
             hist.before[hist.other].current_size[2]) > 0

\* the last test left both tokens where they were
PairNotMoved == \A id \in DOMAIN heap : heap[id].position = hist.before[id].position

\* C14: under circle geometry a test of two tokens at distance 0 moves
\* neither and finds intensity 1.0: _check_circle_collision returns 1.0, and
\* check_collision of a token past its grace period, with bounce_pop
\* configured, starts the bounce at every threshold up to 1.0
C14_ZeroDistanceCircle ==
    TestedAtDistanceZero =>
        /\ hist.op = "_check_circle_collision" =>
             hist.returned = 1000 /\ PairNotMoved
        /\ (hist.op = "check_collision" /\ settings.collision_type = "circle") =>
             /\ PairNotMoved
             /\ (settings.bounce_pop
                 /\ hist.before[hist.self].time_since_respawn
                        >= settings.respawn_collision_delay
                 /\ settings.bounce_threshold <= 10) =>
                    /\ hist.returned
                    /\ heap[hist.self].is_colliding
                    /\ heap[hist.self].collision_partner = hist.other

\* C14, its case: check_collision started a bounce at distance 0 with the
\* threshold at 1.0
C14_TriggeredAtThresholdOne ==
    /\ TestedAtDistanceZero
    /\ hist.op = "check_collision"
    /\ settings.collision_type = "circle"
    /\ settings.bounce_threshold = 10
    /\ hist.returned

\* the states the token of slot idx can be left in by its iteration of the
\* loop of update_tokens, one for each order in which the set of candidates
\* can be iterated (the last candidate that qualifies stays the partner)
LoopBodyOutcomes ==
    LET id == tokens[idx]
        forced == apply_forces(heap, id, settings, frame)
        h1 == [heap EXCEPT ![id] = forced]
        hits == triggering(h1, id, get_potential_collisions(grid, h1, id, cell_size),
                           settings)
    IN  IF hits = {} THEN { token_update(forced, canvas_size, settings, frame.dt) }
        ELSE { token_update(check_collision(h1, id, last, settings),
                            canvas_size, settings, frame.dt) : last \in hits }

\* C15: a step is deterministic: the state a token is left in, its
\* collision_partner included, is determined by the slot array, the pending
\* respawns and the inputs of the step
C15_StepDeterministic ==
    (pc = "tokens" /\ idx \in Slots /\ tokens[idx] # None) =>
        Cardinality(LoopBodyOutcomes) = 1

(***************************************************************************)
(* The grid window against the reach of the collision test and of          *)
(* flocking, at the positions the grid was built from.                     *)
(***************************************************************************)
\* the intensity Token.check_collision computes for the pair is above 0
intensity_positive(a, b, cfg) ==
    LET bs == check_bounds_scale(cfg)
        overlap_x == Min(4 * a.position[1] + a.current_size[1] * bs,
                         4 * b.position[1] + b.current_size[1] * bs)
                     - Max(4 * a.position[1] - a.current_size[1] * bs,
                           4 * b.position[1] - b.current_size[1] * bs)
        overlap_y == Min(4 * a.position[2] + a.current_size[2] * bs,
                         4 * b.position[2] + b.current_size[2] * bs)
                     - Max(4 * a.position[2] - a.current_size[2] * bs,
                           4 * b.position[2] - b.current_size[2] * bs)
    IN  IF cfg.collision_type = "rect"
        THEN rect_overlaps(a, b, bs) /\ overlap_x > 0 /\ overlap_y > 0
        ELSE circle_overlaps(a, b, bs)

\* the ids in the slots
LiveIds == { tokens[i] : i \in Slots } \ { None }

\* C16: right after the grid is rebuilt, every two live tokens whose collision
\* intensity under the configured geometry and bounds_scale is above 0 are in
\* each other's 3x3-cell collision candidates
C16_OverlappingPairsAreCandidates ==
    JustRebuilt =>
        \A a \in LiveIds : \A b \in LiveIds \ { a } :
            intensity_positive(heap[a], heap[b], settings)
                => b \in get_potential_collisions(grid, heap, a, cell_size)

\* C17: right after the grid is rebuilt with flocking enabled, every other
\* live token closer to a token than the flocking radius is in the neighbour
\* set its apply_flocking call is given
C17_FlockMatesAreNeighbours ==
    (JustRebuilt /\ settings.flocking_enabled) =>
        \A a \in LiveIds : \A b \in LiveIds \ { a } :
            (/\ WithinRadius(heap[b].position, heap[a].position,
                             settings.flocking_radius)
             /\ Len2(VSub(heap[b].position, heap[a].position))
                  < settings.flocking_radius * settings.flocking_radius)
                => b \in get_nearby_tokens(grid, heap[a].position,
                                           settings.max_distance, cell_size)
(***************************************************************************)
(* Leaving Colliding.                                                      *)
(***************************************************************************)
\* C18: a token that is Colliding when its Token.update of the frame is
\* called (collision_time being the value update finds, which a trigger in
\* the same loop body has set back to 0) leaves Colliding in that update
\* exactly when collision_time + dt >= bounce_duration, and then is_colliding is
\* false, collision_partner is None, collision_time is 0 and bounce_scale is
\* 1.0; otherwise it stays Colliding with collision_time advanced by dt.
\* Nothing else ends Colliding: the collision tests of the loop body keep
\* it, and so do the steps before and after the token's own loop body.
C18_CollidingEndsAtDuration ==
    InFrame =>
        /\ \A i \in DOMAIN hist.after :
             LET b == hist.before[i]
                 f == hist.forced[i]
                 a == hist.after[i]
             IN  /\ b.is_colliding => f.is_colliding
                 /\ f.is_colliding =>
                      IF f.collision_time + frame.dt >= settings.bounce_duration_ms
                      THEN /\ ~a.is_colliding
                           /\ a.collision_partner = None
                           /\ a.collision_time = 0
                           /\ a.bounce_scale = 1000
                      ELSE /\ a.is_colliding
                           /\ a.collision_partner = f.collision_partner
                           /\ a.collision_time = f.collision_time + frame.dt
                 /\ tokens[i] = hist.ids[i]
                      => heap[tokens[i]].is_colliding = a.is_colliding
        /\ \A i \in Slots \ DOMAIN hist.after :
             (tokens[i] # None /\ tokens[i] = hist.ids[i])
                => heap[tokens[i]].is_colliding = hist.before[i].is_colliding

\* a token whose animation had run for some time reached the duration
\* exactly and left Colliding
C18_LeftAtDuration ==
    /\ InFrame
    /\ \E i \in DOMAIN hist.after :
         /\ hist.forced[i].is_colliding
         /\ hist.forced[i].collision_time > 0
         /\ hist.forced[i].collision_time + frame.dt = settings.bounce_duration_ms
         /\ ~hist.after[i].is_colliding
(***************************************************************************)
(* Death at the canvas edge.                                               *)
(***************************************************************************)
\* twice the four edges of the box of a token: centre position, half of
\* current_size on each side
Box2(tok) ==
    [ left |-> 2 * tok.position[1] - tok.current_size[1],
      right |-> 2 * tok.position[1] + tok.current_size[1],
      top |-> 2 * tok.position[2] - tok.current_size[2],
      bottom |-> 2 * tok.position[2] + tok.current_size[2] ]

\* every point of the box is beyond one edge of the canvas
EntirelyOutside(tok) ==
    \/ Box2(tok).right < 0
    \/ Box2(tok).left > 2 * canvas_size[1]
    \/ Box2(tok).bottom < 0
    \/ Box2(tok).top > 2 * canvas_size[2]

\* C19: with wall bounce disabled, the Token.update of a frame marks the
\* token dead exactly when the box it has after the integration lies entirely
\* outside the canvas on one side; the same loop body empties its slot and
\* queues a respawn for the slot's index at the current clock reading, and a
\* token not marked dead keeps its slot
C19_DeadIffEntirelyOutside ==
    (pc \in { "tokens", "respawn" } /\ ~settings.enable_wall_bounce) =>
        \A i \in DOMAIN hist.after :
            LET a == hist.after[i]
            IN  /\ a.dead <=> EntirelyOutside(a)
                /\ a.dead => /\ tokens[i] = None
                             /\ i \in QueueKeys(respawn_queue)
                             /\ DeathTime(respawn_queue, i) = now
                /\ ~a.dead => tokens[i] = hist.ids[i]

\* a token left the canvas in this frame and its slot was emptied, while
\* another token of the frame, its box partly over the edge, stayed
C19_OneDiedOneStraddles ==
    /\ pc \in { "tokens", "respawn" }
    /\ ~settings.enable_wall_bounce
    /\ \E i \in DOMAIN hist.after :
         hist.after[i].dead /\ tokens[i] = None /\ i \in QueueKeys(respawn_queue)
    /\ \E i \in DOMAIN hist.after :
         /\ ~hist.after[i].dead
         /\ \/ Box2(hist.after[i]).left < 0
            \/ Box2(hist.after[i]).right > 2 * canvas_size[1]
            \/ Box2(hist.after[i]).top < 0
            \/ Box2(hist.after[i]).bottom > 2 * canvas_size[2]
(***************************************************************************)
(* The respawn grace period of the collision test.                         *)
(***************************************************************************)
\* the pair of the last check_collision call overlaps far enough for a
\* bounce under the configured geometry
PairOverlapTriggers ==
    IF settings.collision_type = "rect"
    THEN rect_triggers(hist.before[hist.self], hist.before[hist.other],
                       check_bounds_scale(settings), settings.bounce_threshold)
    ELSE circle_triggers(hist.before[hist.self], hist.before[hist.other],
                         check_bounds_scale(settings), settings.bounce_threshold)

\* C20 as claimed: a token whose time_since_respawn is at or below the grace
\* period does not enter Colliding in a collision test, whatever the overlap
C20_AtOrBelowGraceNeverStarts ==
    (/\ hist.op = "check_collision"
     /\ hist.before[hist.self].time_since_respawn <= settings.respawn_collision_delay)
        => /\ ~hist.returned
           /\ heap[hist.self] = hist.before[hist.self]

\* C20 as amended: a token whose time_since_respawn is below the grace period
\* does not enter Colliding in a collision test, whatever the overlap; a
\* token at or above it starts a bounce exactly when bounce_pop is configured
\* and the overlap reaches the threshold, whatever the age of the other
\* token; the test changes nothing of the other token
C20_BelowGraceNeverStarts ==
    hist.op = "check_collision" =>
        LET self == hist.before[hist.self]
        IN  /\ self.time_since_respawn < settings.respawn_collision_delay
                => ~hist.returned /\ heap[hist.self] = self
            /\ hist.returned <=>
                 /\ self.time_since_respawn >= settings.respawn_collision_delay
                 /\ settings.bounce_pop
                 /\ PairOverlapTriggers
            /\ IF hist.returned
               THEN /\ heap[hist.self].is_colliding
                    /\ heap[hist.self].collision_time = 0
                    /\ heap[hist.self].collision_partner = hist.other
               ELSE heap[hist.self] = self
            /\ heap[hist.other] = hist.before[hist.other]

\* a token inside its grace period was tested against an older token it
\* overlaps far enough for a bounce, and did not start one
C20_YoungTokenNotBounced ==
    /\ hist.op = "check_collision"
    /\ hist.before[hist.self].time_since_respawn < settings.respawn_collision_delay
    /\ hist.before[hist.other].time_since_respawn >= settings.respawn_collision_delay
    /\ settings.bounce_pop
    /\ PairOverlapTriggers
    /\ ~hist.before[hist.self].is_colliding
    /\ ~heap[hist.self].is_colliding
(***************************************************************************)
(* What a collision test writes.                                           *)
(***************************************************************************)
\* C21: a check_collision call on an eligible token (past its grace period,
\* bounce_pop configured) whose intensity reaches the threshold changes, of
\* the tested token, only is_colliding (true), collision_partner (the other
\* token), collision_time (0) and bounce_scale (1.0), and nothing of the
\* other token; every other call changes nothing at all
C21_TriggerWritesFourFields ==
    hist.op = "check_collision" =>
        LET self == hist.before[hist.self]
            eligible == /\ self.time_since_respawn >= settings.respawn_collision_delay
                        /\ settings.bounce_pop
        IN  IF eligible /\ PairOverlapTriggers
            THEN /\ hist.returned
                 /\ heap[hist.self] = [self EXCEPT !.is_colliding = TRUE,
                                                   !.collision_partner = hist.other,
                                                   !.collision_time = 0,
                                                   !.bounce_scale = 1000]
                 /\ heap[hist.other] = hist.before[hist.other]
            ELSE ~hist.returned /\ heap = hist.before

\* a token part-way through a bounce was triggered again and had its
\* collision_time and bounce_scale set back
C21_RetriggeredMidBounce ==
    /\ hist.op = "check_collision"
    /\ hist.returned
    /\ hist.before[hist.self].collision_time > 0
    /\ hist.before[hist.self].bounce_scale > 1000
    /\ heap[hist.self].collision_time = 0
    /\ heap[hist.self].bounce_scale = 1000
(***************************************************************************)
(* The collision partner against the slot array.                           *)
(***************************************************************************)
\* C22: between two frames the collision_partner of every token in a slot is
\* None or a token that is in a slot
C22_PartnerIsLive ==
    pc = "idle" =>
        \A a \in LiveIds :
            heap[a].collision_partner = None \/ heap[a].collision_partner \in LiveIds
(***************************************************************************)
(* The lifecycle of the slots on its own: update_simulation with the       *)
(* physics left out.  Which tokens leave the canvas in a frame is chosen   *)
(* freely; death, the respawn queue, respawn_tokens and update_token_fades *)
(* are those of the frame loop.  hist is                                   *)
(*   [ op, cfg, dt, mid, died, respawned, raised, age ]                    *)
(* where cfg is the settings the frame ran under, mid the heap just before *)
(* update_token_fades, age the dt summed over the frames after the one in  *)
(* which an object was spawned, counted up to twice the fade duration.     *)
(***************************************************************************)
\* the frames of a run
MaxSteps == 4

\* the spawn behaviours the host may switch between
LifeSettings == { DefaultSettings, [DefaultSettings EXCEPT !.instant_in = TRUE] }

\* the clock readings between two frames, ms
LifeDts == { 0, 30, 50 }

\* the slots the run starts with
LifeSlots == 0..1

InitLife ==
    /\ tokens = [ i \in LifeSlots |-> i ]
    /\ heap = [ id \in LifeSlots |-> NewToken(LayoutPositions[id + 1], init_settings.token) ]
    /\ next_id = Cardinality(LifeSlots)
    /\ token_positions = LayoutPositions
    /\ respawn_queue = << >>
    /\ now = 0
    /\ settings \in LifeSettings
    /\ calls = 0
    /\ hist = [ op |-> "init", cfg |-> settings, dt |-> 0, mid |-> << >>,
                died |-> {}, respawned |-> {}, raised |-> FALSE,
                age |-> [ id \in LifeSlots |-> 0 ] ]
    /\ last_mouse_pos = << -10000, -10000 >>
    /\ grid = << >>
    /\ cell_size = None
    /\ pc = "idle"
    /\ idx = 0
    /\ frame = [ dt |-> 0, mouse_pos |-> << -10000, -10000 >>, mouse_speed |-> 0 ]
    /\ ready_indices = << >>
    /\ query_result = {}
    /\ origin = [ i \in LifeSlots |-> LayoutPositions[i + 1] ]

RECURSIVE schedule_all(_, _, _, _)
\* the queue after schedule_respawn(i) for every slot i of dying, in slot
\* order, as the loop of update_tokens calls it
schedule_all(q, dying, i, t) ==
    IF i \notin LifeSlots THEN q
    ELSE schedule_all(IF i \in dying THEN schedule_respawn(q, i, t) ELSE q,
                      dying, i + 1, t)

\* update_token_fades: the heap it leaves
token_fades(h, toks, cfg, dt) ==
    IF cfg.instant_in THEN h
    ELSE [ id \in DOMAIN h |->
             IF \E i \in DOMAIN toks : toks[i] = id THEN fade(h[id], cfg, dt)
             ELSE h[id] ]

\* SettingsManager.update_runtime_settings, between two frames
Life_update_runtime_settings ==
    /\ \E new \in LifeSettings \ { settings } : settings' = new
    /\ UNCHANGED << tokens, heap, token_positions, next_id, respawn_queue, now,
                    last_mouse_pos, grid, cell_size, pc, idx, frame,
                    ready_indices, query_result, calls, origin, hist >>

\* TokenSimulation.update: the clock reading, then update_simulation
Life_update_simulation ==
    /\ calls < MaxSteps
    /\ \E dt \in LifeDts, dying \in SUBSET { i \in LifeSlots : tokens[i] # None } :
         LET t == now + dt
             \* update_tokens: the tokens marked dead leave their slots
             toks1 == [ i \in LifeSlots |-> IF i \in dying THEN None ELSE tokens[i] ]
             q1 == schedule_all(respawn_queue, dying, 0, t)
             \* respawn_tokens
             ready == update_ready(q1, t, init_settings.respawn_delay_sec)
             q2 == update_queue(q1, t, init_settings.respawn_delay_sec)
         IN  \E k \in 0..Len(ready) :
               LET toks2 == respawn_first(toks1, ready, k, token_positions, next_id, 1)
                   fresh == next_id..(next_id + k - 1)
                   h1 == collect(heap, toks1)
                   h2 == [ id \in DOMAIN h1 \cup fresh |->
                             IF id \in DOMAIN h1 THEN h1[id]
                             ELSE spawned(respawn_home(token_positions,
                                                       ready[id - next_id + 1]),
                                          settings) ]
                   raised == k < Len(ready)
                   \* update_token_fades, unless respawn_tokens raised
                   h3 == IF raised THEN h2 ELSE token_fades(h2, toks2, settings, dt)
               IN  /\ now' = t
                   /\ tokens' = toks2
                   /\ respawn_queue' = q2
                   /\ ready_indices' = ready
                   /\ next_id' = next_id + k
                   /\ heap' = h3
                   /\ frame' = [frame EXCEPT !.dt = dt]
                   /\ hist' = [ op |-> "update", cfg |-> settings, dt |-> dt,
                                mid |-> h2, died |-> dying,
                                respawned |-> { ready[j] : j \in 1..k },
                                raised |-> raised,
                                age |-> [ id \in DOMAIN h3 |->
                                            IF id \in DOMAIN hist.age
                                            THEN Min(hist.age[id] + dt,
                                                     2 * settings.fade_in_duration_ms)
                                            ELSE 0 ] ]
    /\ calls' = calls + 1
    /\ UNCHANGED << token_positions, last_mouse_pos, grid, cell_size, settings, pc,
                    idx, query_result, origin >>

NextLife ==
    \/ Life_update_simulation
    \/ Life_update_runtime_settings

SpecLife == InitLife /\ [][NextLife]_vars

\* the opacity update_token_fades computes from a fade timer
FadeTarget(fade_timer, cfg) ==
    IF fade_timer >= cfg.fade_in_duration_ms THEN 255
    ELSE (255 * fade_timer) \div cfg.fade_in_duration_ms

\* C23: a frame adds dt to the fade_timer of every token in a slot whose
\* opacity is below 255 and sets its opacity to the integer part of
\* 255 * min(1, fade_timer / fade_duration), whatever spawn behaviour is
\* configured; a token at opacity 255 keeps opacity and fade_timer
C23_FadingTokensAdvance ==
    (hist.op = "update" /\ ~hist.raised) =>
        \A i \in LifeSlots : tokens[i] # None =>
            LET was == hist.mid[tokens[i]]
                tok == heap[tokens[i]]
            IN  IF was.opacity < 255
                THEN /\ tok.fade_timer = was.fade_timer + hist.dt
                     /\ tok.opacity = FadeTarget(tok.fade_timer, hist.cfg)
                ELSE tok.opacity = 255 /\ tok.fade_timer = was.fade_timer
(***************************************************************************)
(* One token under the pointer force and home-seeking: the frames of a     *)
(* simulation whose layout has a single slot, with wall bounce on so that  *)
(* the token stays.  hist is                                               *)
(*   [ op, dt, before, pushed, homed, after, last_force ]                  *)
(* with the token at the start of the frame, after apply_mouse_force,      *)
(* after apply_home_force and after Token.update, and the clock reading of *)
(* the last frame whose pointer force was applied (None: no such frame).   *)
(***************************************************************************)
\* the configurations of the run: home-seeking on, the pointer on or off
ForceSettings ==
    { [DefaultSettings EXCEPT !.mouse_enabled = m, !.finds_home_enabled = TRUE,
                              !.enable_wall_bounce = TRUE] : m \in BOOLEAN }

\* the clock readings between two frames, ms
ForceDts == { 0, 30, 100 }

\* the pointer positions the host may report (window coordinates, y up)
ForceMouseSet == MouseSet \cup { << 390, 10 >> }

InitForce ==
    /\ tokens = [ i \in { 0 } |-> 0 ]
    /\ heap = [ id \in { 0 } |-> NewToken(LayoutPositions[2], init_settings.token) ]
    /\ next_id = 1
    /\ token_positions = << LayoutPositions[2] >>
    /\ respawn_queue = << >>
    /\ now = 0
    /\ last_mouse_pos = << -10000, -10000 >>
    /\ settings \in ForceSettings
    /\ calls = 0
    /\ hist = [ op |-> "init", last_force |-> None ]
    /\ grid = << >>
    /\ cell_size = None
    /\ pc = "idle"
    /\ idx = 0
    /\ frame = [ dt |-> 0, mouse_pos |-> << -10000, -10000 >>, mouse_speed |-> 0 ]
    /\ ready_indices = << >>
    /\ query_result = {}
    /\ origin = << >>

\* TokenSimulation.update on the single token: the clock reading, the
\* pointer, then the loop body of update_tokens (no neighbour, no candidate)
Force_update_simulation ==
    /\ calls < MaxCalls
    /\ \E dt \in ForceDts, m \in ForceMouseSet :
         LET current_mouse_pos == << m[1], init_settings.canvas[2] - m[2] >>
             mouse_velocity == VSub(current_mouse_pos, last_mouse_pos)
             tok == heap[0]
             pushed == apply_mouse_force(tok, current_mouse_pos,
                                         VLength(mouse_velocity), settings)
             homed == apply_home_force(pushed, settings, dt)
             updated == token_update(homed, canvas_size, settings, dt)
         IN  /\ now' = now + dt
             /\ last_mouse_pos' = current_mouse_pos
             /\ frame' = [ dt |-> dt, mouse_pos |-> current_mouse_pos,
                           mouse_speed |-> VLength(mouse_velocity) ]
             /\ heap' = [heap EXCEPT ![0] = updated]
             /\ hist' = [ op |-> "update", dt |-> dt, before |-> tok,
                          pushed |-> pushed, homed |-> homed, after |-> updated,
                          last_force |->
                              IF mouse_force_applies(tok, current_mouse_pos, settings)
                              THEN now + dt ELSE hist.last_force ]
    /\ calls' = calls + 1
    /\ UNCHANGED << tokens, token_positions, next_id, respawn_queue, grid, cell_size,
                    settings, pc, idx, ready_indices, query_result, origin >>

\* SettingsManager.update_runtime_settings, between two frames
Force_update_runtime_settings ==
    /\ calls < MaxCalls
    /\ \E new \in ForceSettings \ { settings } : settings' = new
    /\ calls' = calls + 1
    /\ UNCHANGED << tokens, heap, token_positions, next_id, respawn_queue, now,
                    last_mouse_pos, grid, cell_size, pc, idx, frame,
                    ready_indices, query_result, origin, hist >>

NextForce ==
    \/ Force_update_simulation
    \/ Force_update_runtime_settings

SpecForce == InitForce /\ [][NextForce]_vars

\* home-seeking changed the velocity in the last frame
HomeForceApplied == hist.op = "update" /\ hist.homed.velocity # hist.pushed.velocity

\* C24, first part: home-seeking changes the velocity in a frame only if
\* time_since_force exceeds the configured delay
C24_HomeForceNeedsDelay ==
    HomeForceApplied => hist.pushed.time_since_force > settings.finds_home_delay

\* C24, second part: a frame sets time_since_force to 0 if the pointer force
\* was applied in it, and adds dt to it otherwise
C24_TimerResetOrGrows ==
    hist.op = "update" =>
        hist.after.time_since_force =
            IF hist.last_force = now THEN 0
            ELSE hist.before.time_since_force + hist.dt

\* C24, third part: no home force is applied within the delay after the last
\* frame whose pointer force was applied
C24_HomeForceAfterDelay ==
    (HomeForceApplied /\ hist.last_force # None)
        => now - hist.last_force > settings.finds_home_delay

\* C24: the three parts together
C24_HomeSeekingWaitsForDelay ==
    /\ C24_HomeForceNeedsDelay
    /\ C24_TimerResetOrGrows
    /\ C24_HomeForceAfterDelay
(***************************************************************************)
(* The order of the three passes of a frame.                               *)
(***************************************************************************)
\* C25: at the end of a frame whose respawn pass ran, a token respawned in
\* the frame has not been moved, aged or collision-tested by the frame (it
\* is at its home with velocity 0 and time_since_respawn 0, and no force or
\* collision code read or wrote it) but has had its fade advanced by the
\* frame's dt (or is opaque, under instant_in); a token that died in the
\* frame is out of its slot and as its Token.update left it
C25_RespawnAfterUpdateBeforeFades ==
    (pc = "idle" /\ hist.drained) =>
        /\ \A i \in hist.respawned :
             /\ tokens[i] # None
             /\ tokens[i] \notin DOMAIN hist.start_pos
             /\ \A r \in hist.reads : r.reader # tokens[i] /\ r.other # tokens[i]
             /\ LET tok == heap[tokens[i]]
                IN  /\ tok.position = tok.home
                    /\ tok.velocity = << 0, 0 >>
                    /\ tok.time_since_respawn = 0
                    /\ ~tok.is_colliding
                    /\ \/ tok.opacity = 255 /\ tok.fade_timer = 0
                       \/ /\ tok.fade_timer = frame.dt
                          /\ tok.opacity = FadeTarget(frame.dt, settings)
        /\ \A i \in DOMAIN hist.after :
             hist.after[i].dead =>
                 /\ tokens[i] = None
                 /\ heap[hist.ids[i]] = hist.after[i]
(***************************************************************************)
(* The slot array against the respawn queue.                               *)
(***************************************************************************)
\* C26: between two frames a slot is empty exactly when the respawn queue
\* holds an entry for its index
C26_AbsentIffPending ==
    pc = "idle" =>
        /\ \A i \in Slots : tokens[i] = None <=> i \in QueueKeys(respawn_queue)
        /\ QueueKeys(respawn_queue) \subseteq Slots
(***************************************************************************)
(* Respawn as a liveness property.  The host calls update once per         *)
(* rendered frame for as long as the run lasts, and its clock advances:    *)
(* a frame with dt > 0 is taken again and again until the frames of the    *)
(* run are used up.                                                        *)
(***************************************************************************)
\* a frame in which the clock has advanced
Life_advancing_frame == Life_update_simulation /\ now' > now

SpecLifeFair == SpecLife /\ WF_vars(Life_advancing_frame)

\* C27: an empty slot is eventually refilled, or the run ends with the
\* slot's respawn still pending
C27_AbsentSlotRefilled ==
    \A i \in LifeSlots :
        (tokens[i] = None)
            ~> (\/ tokens[i] # None
                \/ calls = MaxSteps /\ i \in QueueKeys(respawn_queue))
(***************************************************************************)
(* Two tokens at rest that overlap: the frames of the collision test and   *)
(* the bounce animation, with no force configured.  hist is                *)
(*   [ op, dt, before, since ]                                             *)
(* where since[id] is None while the token is not Colliding, and for a     *)
(* Colliding token the dt summed over the frames after the one in which it *)
(* entered Colliding.                                                      *)
(***************************************************************************)
\* the configurations of the run: bounce_pop configured or not
BounceSettings == { [DefaultSettings EXCEPT !.bounce_pop = bp] : bp \in BOOLEAN }

\* the clock readings between two frames, ms
BounceDts == { 0, 50, 100, 200 }

\* where the second token rests
BouncePositions == { << 260, 80 >>, << 325, 80 >> }

InitBounce ==
    /\ tokens = [ i \in 0..1 |-> i ]
    /\ \E p \in BouncePositions :
         heap = (0 :> NewToken(<< 200, 80 >>, init_settings.token))
                @@ (1 :> NewToken(p, init_settings.token))
    /\ next_id = 2
    /\ token_positions = << >>
    /\ respawn_queue = << >>
    /\ now = 0
    /\ last_mouse_pos = << -10000, -10000 >>
    /\ settings \in BounceSettings
    /\ calls = 0
    /\ hist = [ op |-> "init", since |-> [ id \in 0..1 |-> None ] ]
    /\ grid = << >>
    /\ cell_size = None
    /\ pc = "idle"
    /\ idx = 0
    /\ frame = [ dt |-> 0, mouse_pos |-> << -10000, -10000 >>, mouse_speed |-> 0 ]
    /\ ready_indices = << >>
    /\ query_result = {}
    /\ origin = << >>

\* the loop body of update_tokens for token id with the one candidate other:
\* check_collision, then Token.update
bounce_loop_body(h, id, other, cfg, dt) ==
    [h EXCEPT ![id] = token_update(check_collision(h, id, other, cfg),
                                   canvas_size, cfg, dt)]

\* TokenSimulation.update: the clock reading, then the loop of update_tokens
\* over the two slots
Bounce_update_simulation ==
    /\ calls < MaxCalls
    /\ \E dt \in BounceDts :
         LET h1 == bounce_loop_body(heap, 0, 1, settings, dt)
             h2 == bounce_loop_body(h1, 1, 0, settings, dt)
         IN  /\ now' = now + dt
             /\ frame' = [frame EXCEPT !.dt = dt]
             /\ heap' = h2
             /\ hist' = [ op |-> "update", dt |-> dt, before |-> heap,
                          since |-> [ id \in 0..1 |->
                                        IF ~h2[id].is_colliding THEN None
                                        ELSE IF hist.since[id] = None THEN 0
                                        ELSE hist.since[id] + dt ] ]
    /\ calls' = calls + 1
    /\ UNCHANGED << tokens, token_positions, next_id, respawn_queue, last_mouse_pos,
                    grid, cell_size, settings, pc, idx, ready_indices,
                    query_result, origin >>

\* SettingsManager.update_runtime_settings, between two frames
Bounce_update_runtime_settings ==
    /\ calls < MaxCalls
    /\ \E new \in BounceSettings \ { settings } : settings' = new
    /\ calls' = calls + 1
    /\ UNCHANGED << tokens, heap, token_positions, next_id, respawn_queue, now,
                    last_mouse_pos, grid, cell_size, pc, idx, frame,
                    ready_indices, query_result, origin, hist >>

NextBounce ==
    \/ Bounce_update_simulation
    \/ Bounce_update_runtime_settings

SpecBounce == InitBounce /\ [][NextBounce]_vars

\* C28: a token that is Colliding at the end of a frame entered Colliding so
\* recently that the dt summed over the frames since is below bounce_duration
\* (once it reaches bounce_duration the token is back to Normal)
C28_BounceEndsByDuration ==
    hist.op = "update" =>
        \A id \in DOMAIN heap :
            heap[id].is_colliding => hist.since[id] < settings.bounce_duration_ms
C30_OpacityRisesToFull ==
    hist.op = "update" =>
        \A i \in LifeSlots : tokens[i] # None =>
            /\ i \notin hist.respawned
                  => heap[tokens[i]].opacity >= hist.mid[tokens[i]].opacity
            /\ hist.age[tokens[i]] >= settings.fade_in_duration_ms
                  => heap[tokens[i]].opacity = 255
====
